---------------------------- MODULE Spec2Model ----------------------------
(***************************************************************************)
(* Model of akahu-firefly: the indexed account store (class Accounts), the *)
(* indexed transaction store with its merger (class Transactions), the     *)
(* ledger importer and exporter (class Firefly), the feed importer         *)
(* (akahu-import) and the stages of main that drive them.                  *)
(*                                                                         *)
(* Conventions.  An optional value (T | undefined) is a sequence of length *)
(* at most one: <<>> is undefined, <<v>> is v.  A JavaScript Map whose     *)
(* iteration order is observed (Accounts.accounts, Accounts.nameIndex,     *)
(* Account.alternateNames, Transactions.transactions) is a sequence of     *)
(* [k, v] entries in insertion order; a Map that is only read by key is a  *)
(* function.  An index holds the id of the account or transaction object   *)
(* it references; the object is the one stored under that id.              *)
(***************************************************************************)
EXTENDS Integers, Sequences, FiniteSets, TLC

VARIABLES
    accountsCounter,   \* Accounts.counter (static, shared by every Accounts store)
    accStore,          \* an Accounts store driven by arbitrary create / save calls
    accLast,           \* what the last call on accStore did
    accCalls,          \* number of calls made on accStore
    transactionsCounter, \* Transactions.counter (static, shared by every Transactions store)
    txSelf,            \* a Transactions store driven by create / save / merge calls
    txOther,           \* the store the caller builds to merge it into txSelf
    txLast,            \* what the last call did
    txFused,           \* ids of txSelf that mergeTransactions has updated
    txCalls,           \* number of calls made on txSelf and txOther
    pc,                \* the stage of main that has completed
    ledger,            \* the rows of the ledger database: [accounts, transactions]
    feed,              \* the rows of akahu_transactions
    actualAccounts,    \* Firefly.actualAccounts
    actualTransactions, \* Firefly.actualTransactions
    modifiedAccounts,  \* Firefly.modifiedAccounts (undefined before import)
    modifiedTransactions, \* Firefly.modifiedTransactions (undefined before import)
    akahuTransactions, \* the store akahuImport.importTransactions returned
    requests,          \* the requests export has sent to the ledger API
    stage,             \* what the last stage did
    clOrig,            \* an Accounts store s that a caller duplicates
    clDup,             \* d = s.duplicate() (undefined before the call)
    clHeld,            \* the account an accessor returned, in the caller's hands
    clLast             \* what the caller did last, on which store, and the calls so far

accVars == <<accountsCounter, accStore, accLast, accCalls>>
txVars == <<transactionsCounter, txSelf, txOther, txLast, txFused, txCalls>>
pipeVars == <<pc, ledger, feed, actualAccounts, actualTransactions, modifiedAccounts,
              modifiedTransactions, akahuTransactions, requests, stage>>
cloneVars == <<clOrig, clDup, clHeld, clLast>>
vars == <<accVars, txVars, pipeVars, cloneVars>>

\* no Firefly object: the stores are driven directly
PipelineOff ==
    /\ pc = "off"
    /\ ledger = <<>>
    /\ feed = <<>>
    /\ actualAccounts = <<>>
    /\ actualTransactions = <<>>
    /\ modifiedAccounts = <<>>
    /\ modifiedTransactions = <<>>
    /\ akahuTransactions = <<>>
    /\ requests = <<>>
    /\ stage = <<>>

\* no caller holding accounts of a duplicated store
ClonesOff ==
    /\ clOrig = <<>>
    /\ clDup = <<>>
    /\ clHeld = <<>>
    /\ clLast = <<>>

(***************************************************************************)
(* Bounds of the model.                                                    *)
(***************************************************************************)
MaxAccounts == 2    \* accounts created in one run
MaxCalls == 4       \* create and save calls made on the store under test
MaxTransactions == 3 \* transactions created in one run
MaxFeedRows == 3    \* rows of akahu_transactions

(***************************************************************************)
(* Optional values and Maps.                                               *)
(***************************************************************************)
None == <<>>
Some(x) == <<x>>
IsSome(o) == Len(o) = 1
Val(o) == o[1]

\* Map.has / Map.get / Map.set / Map.delete on an insertion-ordered Map
MapHas(m, k) == \E i \in 1..Len(m) : m[i].k = k
MapGet(m, k) == m[CHOOSE i \in 1..Len(m) : m[i].k = k].v
MapSet(m, k, v) ==
    IF MapHas(m, k)
    THEN [i \in 1..Len(m) |-> IF m[i].k = k THEN [k |-> k, v |-> v] ELSE m[i]]
    ELSE Append(m, [k |-> k, v |-> v])
MapDelete(m, k) == SelectSeq(m, LAMBDA e : e.k # k)
MapKeys(m) == {m[i].k : i \in 1..Len(m)}
MapValues(m) == [i \in 1..Len(m) |-> m[i].v]

\* the same on a Map that is only read by key
EmptyFn == [x \in {} |-> 0]
FnHas(f, k) == k \in DOMAIN f
FnSet(f, k, v) == [x \in (DOMAIN f) \cup {k} |-> IF x = k THEN v ELSE f[x]]
FnDelete(f, k) == [x \in (DOMAIN f) \ {k} |-> f[x]]

\* the elements of a finite set of strings or numbers in a fixed order
RECURSIVE SetToSeq(_)
SetToSeq(S) ==
    IF S = {} THEN <<>>
    ELSE LET x == CHOOSE y \in S : TRUE IN <<x>> \o SetToSeq(S \ {x})

(***************************************************************************)
(* Accounts.normalizeName: NFD, combining marks dropped, lower case, trim, *)
(* on the names of the model.                                              *)
(***************************************************************************)
normalizeName(name) ==
    CASE name = "Coffee"   -> "coffee"
      [] name = " COFFEE"  -> "coffee"
      [] name = "COFFEE"   -> "coffee"
      [] name = "Bank"     -> "bank"
      [] name = "Interest" -> "interest"
      [] name = "Cheque"   -> "cheque"
      [] name = "Savings"  -> "savings"
      [] name = "Coffee Co" -> "coffee co"
      [] OTHER             -> name   \* "coffee", "bank", "interest": already normal

(***************************************************************************)
(* class Accounts                                                          *)
(***************************************************************************)
EmptyAccounts ==
    [accounts        |-> <<>>,
     fireflyIdIndex  |-> EmptyFn,
     akahuIdIndex    |-> EmptyFn,
     bankNumberIndex |-> EmptyFn,
     nameIndex       |-> <<>>]

\* role?.fireflyId
RoleFireflyId(role) == IF IsSome(role) THEN Val(role).fireflyId ELSE None

\* console.error of index: the keys of account that are already indexed
IndexDuplicates(s, account) ==
    LET sf == RoleFireflyId(account.source)
        df == RoleFireflyId(account.destination)
    IN  [fireflyId  |-> {f \in {Val(o) : o \in {x \in {sf, df} : IsSome(x)}} :
                            FnHas(s.fireflyIdIndex, f)},
         akahuId    |-> {a \in {Val(o) : o \in {x \in {account.akahuId} : IsSome(x)}} :
                            FnHas(s.akahuIdIndex, a)},
         name       |-> {n \in MapKeys(account.alternateNames) : MapHas(s.nameIndex, n)},
         bankNumber |-> {b \in account.bankNumbers : FnHas(s.bankNumberIndex, b)}]

\* set k -> id unless k is already a key
FnSetIfAbsent(f, k, id) == IF FnHas(f, k) THEN f ELSE FnSet(f, k, id)
MapSetIfAbsent(m, k, id) == IF MapHas(m, k) THEN m ELSE MapSet(m, k, id)

RECURSIVE IndexNames(_, _, _)
IndexNames(nameIndex, names, id) ==
    IF names = <<>> THEN nameIndex
    ELSE IndexNames(MapSetIfAbsent(nameIndex, Head(names).k, id), Tail(names), id)

RECURSIVE IndexBankNumbers(_, _, _)
IndexBankNumbers(bankNumberIndex, numbers, id) ==
    IF numbers = {} THEN bankNumberIndex
    ELSE LET b == CHOOSE x \in numbers : TRUE
         IN  IndexBankNumbers(FnSetIfAbsent(bankNumberIndex, b, id), numbers \ {b}, id)

\* Accounts.index
AccountsIndex(s, account) ==
    LET sf == RoleFireflyId(account.source)
        df == RoleFireflyId(account.destination)
        f1 == IF IsSome(sf) THEN FnSetIfAbsent(s.fireflyIdIndex, Val(sf), account.id)
              ELSE s.fireflyIdIndex
        f2 == IF sf # df /\ IsSome(df) THEN FnSetIfAbsent(f1, Val(df), account.id)
              ELSE f1
    IN  [accounts        |-> MapSet(s.accounts, account.id, account),
         fireflyIdIndex  |-> f2,
         akahuIdIndex    |-> IF IsSome(account.akahuId)
                             THEN FnSetIfAbsent(s.akahuIdIndex, Val(account.akahuId), account.id)
                             ELSE s.akahuIdIndex,
         nameIndex       |-> IndexNames(s.nameIndex, account.alternateNames, account.id),
         bankNumberIndex |-> IndexBankNumbers(s.bankNumberIndex, account.bankNumbers, account.id)]

RECURSIVE DeleteKeys(_, _)
DeleteKeys(f, keys) ==
    IF keys = {} THEN f
    ELSE LET k == CHOOSE x \in keys : TRUE IN DeleteKeys(FnDelete(f, k), keys \ {k})

\* Accounts.deindex
AccountsDeindex(s, account) ==
    LET sf == RoleFireflyId(account.source)
        df == RoleFireflyId(account.destination)
    IN  [accounts        |-> s.accounts,
         fireflyIdIndex  |-> DeleteKeys(s.fireflyIdIndex,
                                 {Val(o) : o \in {x \in {sf, df} : IsSome(x)}}),
         akahuIdIndex    |-> DeleteKeys(s.akahuIdIndex,
                                 {Val(o) : o \in {x \in {account.akahuId} : IsSome(x)}}),
         nameIndex       |-> SelectSeq(s.nameIndex,
                                 LAMBDA e : e.k \notin MapKeys(account.alternateNames)),
         bankNumberIndex |-> DeleteKeys(s.bankNumberIndex, account.bankNumbers)]

\* Accounts.get and the getBy... accessors (the clone has the stored values)
AccountsGet(s, id) ==
    IF MapHas(s.accounts, id) THEN Some(MapGet(s.accounts, id)) ELSE None
AccountsGetByAkahuId(s, akahuId) ==
    IF FnHas(s.akahuIdIndex, akahuId) THEN AccountsGet(s, s.akahuIdIndex[akahuId]) ELSE None
AccountsGetByFireflyId(s, fireflyId) ==
    IF FnHas(s.fireflyIdIndex, fireflyId) THEN AccountsGet(s, s.fireflyIdIndex[fireflyId]) ELSE None
AccountsGetByNormName(s, normName) ==
    IF MapHas(s.nameIndex, normName) THEN AccountsGet(s, MapGet(s.nameIndex, normName)) ELSE None
AccountsGetByName(s, name) == AccountsGetByNormName(s, normalizeName(name))

\* Accounts.save without the check of the Akahu ID
AccountsSaveOutcomeNoAkahuCheck(s, account) ==
    LET existing == AccountsGet(s, account.id)
        e == Val(existing)
        esf == RoleFireflyId(e.source)
        edf == RoleFireflyId(e.destination)
    IN  IF ~IsSome(existing) THEN "logged: id doesn't exist"
        ELSE IF IsSome(esf) /\ esf # RoleFireflyId(account.source)
             THEN "throw: source Firefly ID"
        ELSE IF IsSome(edf) /\ edf # RoleFireflyId(account.destination)
             THEN "throw: destination Firefly ID"
        ELSE "saved"

\* Accounts.save: the outcome and the store afterwards
AccountsSaveOutcome(s, account) ==
    LET existing == AccountsGet(s, account.id)
        e == Val(existing)
        esf == RoleFireflyId(e.source)
        edf == RoleFireflyId(e.destination)
    IN  IF ~IsSome(existing) THEN "logged: id doesn't exist"
        ELSE IF IsSome(esf) /\ esf # RoleFireflyId(account.source)
             THEN "throw: source Firefly ID"
        ELSE IF IsSome(edf) /\ edf # RoleFireflyId(account.destination)
             THEN "throw: destination Firefly ID"
        ELSE IF IsSome(e.akahuId) /\ e.akahuId # account.akahuId
             THEN "throw: Akahu ID"
        ELSE "saved"

AccountsSave(s, account) ==
    IF AccountsSaveOutcome(s, account) = "saved"
    THEN AccountsIndex(AccountsDeindex(s, MapGet(s.accounts, account.id)), account)
    ELSE s

\* Accounts.create, for the counter value it has incremented to
AccountsCreate(s, inputAccount, id) ==
    AccountsIndex(s, [inputAccount EXCEPT !.id = id])


(***************************************************************************)
(* Accounts a caller may hand to create or save.  As the importers build   *)
(* them, the primary name is one of the alternate names.                   *)
(***************************************************************************)
Role(fireflyId, type) == [fireflyId |-> fireflyId, type |-> type, notes |-> None]

RoleShapes ==
    { [source |-> Some(Role(Some(1), "revenue")), destination |-> None],
      [source |-> None, destination |-> Some(Role(Some(1), "expense"))],
      [source |-> Some(Role(Some(2), "asset")),
       destination |-> Some(Role(Some(2), "asset"))] }

AccountInputs ==
    { [id             |-> 0,
       source         |-> r.source,
       destination    |-> r.destination,
       akahuId        |-> a,
       name           |-> n,
       bankNumbers    |-> {},
       alternateNames |-> <<[k |-> normalizeName(n), v |-> n]>>] :
      r \in RoleShapes,
      n \in {"Coffee", " COFFEE", "Bank"},
      a \in {None, Some("merchant_1")} }

\* What a caller changes on the account it got from the store before it saves it
AccountEdits ==
    {[field |-> "none", value |-> None]}
    \cup {[field |-> "akahuId", value |-> v] : v \in {None, Some("merchant_1")}}
    \cup {[field |-> "alternateName", value |-> n] : n \in {" COFFEE", "Bank"}}
    \cup {[field |-> "source", value |-> v] : v \in {None, Some(Role(None, "revenue"))}}
    \cup {[field |-> "destination", value |-> v] : v \in {None, Some(Role(None, "expense"))}}
    \cup {[field |-> "bankNumber", value |-> "01-0001-0000001-001"]}

ApplyEdit(account, e) ==
    CASE e.field = "akahuId"       -> [account EXCEPT !.akahuId = e.value]
      [] e.field = "alternateName" ->
            [account EXCEPT !.alternateNames = MapSet(@, normalizeName(e.value), e.value)]
      [] e.field = "source"        -> [account EXCEPT !.source = e.value]
      [] e.field = "destination"   -> [account EXCEPT !.destination = e.value]
      [] e.field = "bankNumber"    -> [account EXCEPT !.bankNumbers = @ \cup {e.value}]
      [] OTHER                     -> account

\* The accounts a caller may save: an edited copy of a stored account, or an
\* account whose id the store has never assigned
SaveInputs(s) ==
    {ApplyEdit(s.accounts[i].v, e) : i \in 1..Len(s.accounts), e \in AccountEdits}
    \cup {[a EXCEPT !.id = MaxAccounts + 1] : a \in {x \in AccountInputs : x.name = "Bank"}}

(***************************************************************************)
(* SpecAccounts: one Accounts store under any sequence of create and save. *)
(***************************************************************************)
InitAccounts ==
    /\ accountsCounter = 0
    /\ accStore = EmptyAccounts
    /\ accLast = [op |-> "new", outcome |-> "new", duplicate |-> FALSE, immutable |-> FALSE]
    /\ accCalls = 0
    /\ transactionsCounter = 0
    /\ txSelf = [transactions |-> <<>>, fireflyIdIndex |-> EmptyFn, akahuIdIndex |-> EmptyFn]
    /\ txOther = txSelf
    /\ txLast = [op |-> "new"]
    /\ txFused = {}
    /\ txCalls = 0
    /\ PipelineOff
    /\ ClonesOff

HasDuplicates(s, account) ==
    LET d == IndexDuplicates(s, account)
    IN  d.fireflyId # {} \/ d.akahuId # {} \/ d.name # {} \/ d.bankNumber # {}

\* save(account) would change an identifier of the stored account that is set
ChangesImmutable(s, account) ==
    /\ MapHas(s.accounts, account.id)
    /\ LET existing == MapGet(s.accounts, account.id)
       IN  \/ IsSome(existing.akahuId) /\ account.akahuId # existing.akahuId
           \/ /\ IsSome(RoleFireflyId(existing.source))
              /\ RoleFireflyId(account.source) # RoleFireflyId(existing.source)
           \/ /\ IsSome(RoleFireflyId(existing.destination))
              /\ RoleFireflyId(account.destination) # RoleFireflyId(existing.destination)

Create(inputAccount) ==
    /\ accountsCounter < MaxAccounts
    /\ accCalls < MaxCalls
    /\ accCalls' = accCalls + 1
    /\ accountsCounter' = accountsCounter + 1
    /\ accStore' = AccountsCreate(accStore, inputAccount, accountsCounter + 1)
    /\ accLast' = [op |-> "create", outcome |-> "created",
                   duplicate |-> HasDuplicates(accStore, inputAccount),
                   immutable |-> FALSE]

Save(account) ==
    /\ accCalls < MaxCalls
    /\ accCalls' = accCalls + 1
    /\ accStore' = AccountsSave(accStore, account)
    /\ accLast' = [op |-> "save", outcome |-> AccountsSaveOutcome(accStore, account),
                   duplicate |-> /\ AccountsSaveOutcome(accStore, account) = "saved"
                                 /\ HasDuplicates(
                                        AccountsDeindex(accStore, MapGet(accStore.accounts, account.id)),
                                        account),
                   immutable |-> ChangesImmutable(accStore, account)]
    /\ UNCHANGED accountsCounter

NextAccounts ==
    \/ \E a \in AccountInputs : Create(a)
    \/ \E a \in SaveInputs(accStore) : Save(a)

SpecAccounts == InitAccounts /\ [][NextAccounts /\ UNCHANGED <<txVars, pipeVars, cloneVars>>]_vars

(***************************************************************************)
(* Secondary keys of an account, per index.                                *)
(***************************************************************************)
FireflyIdsOf(account) ==
    {Val(o) : o \in {x \in {RoleFireflyId(account.source),
                             RoleFireflyId(account.destination)} : IsSome(x)}}
AkahuIdsOf(account) == {Val(o) : o \in {x \in {account.akahuId} : IsSome(x)}}
NamesOf(account) == MapKeys(account.alternateNames)
StoredAccounts(s) == {s.accounts[i].v : i \in 1..Len(s.accounts)}
StoredIds(s) == MapKeys(s.accounts)

\* every key present in an index maps to a stored account that owns the key
IndexedKeysOwned(s) ==
    /\ \A f \in DOMAIN s.fireflyIdIndex :
          /\ s.fireflyIdIndex[f] \in StoredIds(s)
          /\ f \in FireflyIdsOf(MapGet(s.accounts, s.fireflyIdIndex[f]))
    /\ \A a \in DOMAIN s.akahuIdIndex :
          /\ s.akahuIdIndex[a] \in StoredIds(s)
          /\ a \in AkahuIdsOf(MapGet(s.accounts, s.akahuIdIndex[a]))
    /\ \A b \in DOMAIN s.bankNumberIndex :
          /\ s.bankNumberIndex[b] \in StoredIds(s)
          /\ b \in MapGet(s.accounts, s.bankNumberIndex[b]).bankNumbers
    /\ \A n \in MapKeys(s.nameIndex) :
          /\ MapGet(s.nameIndex, n) \in StoredIds(s)
          /\ n \in NamesOf(MapGet(s.accounts, MapGet(s.nameIndex, n)))

\* every stored account is returned by the lookup of every key it owns
OwnedKeysIndexed(s) ==
    \A acc \in StoredAccounts(s) :
        /\ \A f \in FireflyIdsOf(acc) : AccountsGetByFireflyId(s, f) = Some(acc)
        /\ \A a \in AkahuIdsOf(acc) : AccountsGetByAkahuId(s, a) = Some(acc)
        /\ \A b \in acc.bankNumbers :
              FnHas(s.bankNumberIndex, b) /\ s.bankNumberIndex[b] = acc.id
        /\ \A n \in NamesOf(acc) : AccountsGetByNormName(s, n) = Some(acc)

\* C1: after any sequence of Accounts.create and Accounts.save calls, every key
\* present in one of the four secondary indices maps to a stored account that
\* owns the key, and every stored account is returned by the lookup of every
\* key it owns.
C1_IndexInvariant == IndexedKeysOwned(accStore) /\ OwnedKeysIndexed(accStore)

\* no two distinct stored accounts share a secondary key
NoSharedKeys(s) ==
    \A a, b \in StoredAccounts(s) :
        a.id # b.id =>
            /\ AkahuIdsOf(a) \cap AkahuIdsOf(b) = {}
            /\ a.bankNumbers \cap b.bankNumbers = {}
            /\ NamesOf(a) \cap NamesOf(b) = {}
            /\ FireflyIdsOf(a) \cap FireflyIdsOf(b) = {}

\* C2: after any sequence of create / save calls on one Accounts store, no two
\* distinct stored accounts share an akahuId, a bank number, a normalized name
\* or a role externalId.
C2_UniqueKeys == NoSharedKeys(accStore)

(***************************************************************************)
(* class Transactions                                                      *)
(*                                                                         *)
(* A date is a whole number of minutes since the epoch (UTC), an amount a  *)
(* whole number of cents, a description a sequence of characters.  An id   *)
(* of 0 is the undefined id of a transaction no store has created yet.     *)
(***************************************************************************)
EmptyTransactions ==
    [transactions   |-> <<>>,
     fireflyIdIndex |-> EmptyFn,
     akahuIdIndex   |-> EmptyFn]

RECURSIVE IndexAkahuIds(_, _, _)
IndexAkahuIds(akahuIdIndex, akahuIds, id) ==
    IF akahuIds = {} THEN akahuIdIndex
    ELSE LET k == CHOOSE x \in akahuIds : TRUE
         IN  IndexAkahuIds(FnSetIfAbsent(akahuIdIndex, k, id), akahuIds \ {k}, id)

\* Transactions.index
TransactionsIndex(s, transaction) ==
    [transactions   |-> MapSet(s.transactions, transaction.id, transaction),
     fireflyIdIndex |-> IF IsSome(transaction.fireflyId)
                        THEN FnSetIfAbsent(s.fireflyIdIndex, Val(transaction.fireflyId),
                                           transaction.id)
                        ELSE s.fireflyIdIndex,
     akahuIdIndex   |-> IndexAkahuIds(s.akahuIdIndex, transaction.akahuIds, transaction.id)]

\* Transactions.deindex
TransactionsDeindex(s, transaction) ==
    [transactions   |-> s.transactions,
     fireflyIdIndex |-> IF IsSome(transaction.fireflyId)
                        THEN FnDelete(s.fireflyIdIndex, Val(transaction.fireflyId))
                        ELSE s.fireflyIdIndex,
     akahuIdIndex   |-> DeleteKeys(s.akahuIdIndex, transaction.akahuIds)]

\* Transactions.get, getByAkahuId, getByFireflyId
TransactionsGet(s, id) ==
    IF MapHas(s.transactions, id) THEN Some(MapGet(s.transactions, id)) ELSE None
TransactionsGetByAkahuId(s, akahuId) ==
    IF FnHas(s.akahuIdIndex, akahuId) THEN TransactionsGet(s, s.akahuIdIndex[akahuId])
    ELSE None
TransactionsGetByFireflyId(s, fireflyId) ==
    IF FnHas(s.fireflyIdIndex, fireflyId)
    THEN TransactionsGet(s, s.fireflyIdIndex[fireflyId])
    ELSE None

\* a save that does not deny a change of the Firefly ID
TransactionsSaveOutcomeAnyFireflyId(s, transaction) ==
    LET existing == TransactionsGet(s, transaction.id)
        e == Val(existing)
    IN  IF ~IsSome(existing) THEN "logged: id doesn't exist"
        ELSE IF \E k \in e.akahuIds : k \notin transaction.akahuIds
             THEN "throw: Akahu IDs"
        ELSE "saved"

\* Transactions.save: the outcome and the store afterwards
TransactionsSaveOutcome(s, transaction) ==
    LET existing == TransactionsGet(s, transaction.id)
        e == Val(existing)
    IN  IF ~IsSome(existing) THEN "logged: id doesn't exist"
        ELSE IF IsSome(e.fireflyId) /\ e.fireflyId # transaction.fireflyId
             THEN "throw: Firefly ID"
        ELSE IF \E k \in e.akahuIds : k \notin transaction.akahuIds
             THEN "throw: Akahu IDs"
        ELSE "saved"

TransactionsSave(s, transaction) ==
    IF TransactionsSaveOutcome(s, transaction) = "saved"
    THEN TransactionsIndex(TransactionsDeindex(s, MapGet(s.transactions, transaction.id)),
                           transaction)
    ELSE s

\* Transactions.create: the store and the static counter afterwards
\* create that takes the next id and leaves the counter where it was
TransactionsCreateNoCount(s, inputTransaction, counter) ==
    IF inputTransaction.id = 0
    THEN [store   |-> TransactionsIndex(s, [inputTransaction EXCEPT !.id = counter + 1]),
          counter |-> counter]
    ELSE [store |-> TransactionsIndex(s, inputTransaction), counter |-> counter]

TransactionsCreate(s, inputTransaction, counter) ==
    IF inputTransaction.id = 0
    THEN [store   |-> TransactionsIndex(s, [inputTransaction EXCEPT !.id = counter + 1]),
          counter |-> counter + 1]
    ELSE [store |-> TransactionsIndex(s, inputTransaction), counter |-> counter]

(***************************************************************************)
(* compareTwoStrings of string-similarity (the Dice coefficient of the     *)
(* character bigrams), as the fraction num / den.                          *)
(***************************************************************************)
StripSpaces(str) == SelectSeq(str, LAMBDA c : c # " ")
Bigrams(str) == [i \in 1..(Len(str) - 1) |-> <<str[i], str[i + 1]>>]

RemoveAt(seq, i) == [j \in 1..(Len(seq) - 1) |-> IF j < i THEN seq[j] ELSE seq[j + 1]]

RECURSIVE IntersectionSize(_, _)
IntersectionSize(firstBigrams, secondBigrams) ==
    IF secondBigrams = <<>> THEN 0
    ELSE IF \E i \in 1..Len(firstBigrams) : firstBigrams[i] = Head(secondBigrams)
         THEN LET i == CHOOSE j \in 1..Len(firstBigrams) : firstBigrams[j] = Head(secondBigrams)
              IN  1 + IntersectionSize(RemoveAt(firstBigrams, i), Tail(secondBigrams))
         ELSE IntersectionSize(firstBigrams, Tail(secondBigrams))

compareTwoStrings(first, second) ==
    LET f == StripSpaces(first)
        g == StripSpaces(second)
    IN  IF f = g THEN [num |-> 1, den |-> 1]
        ELSE IF Len(f) < 2 \/ Len(g) < 2 THEN [num |-> 0, den |-> 1]
        ELSE [num |-> 2 * IntersectionSize(Bigrams(f), Bigrams(g)),
              den |-> Len(f) + Len(g) - 2]

\* sign of x - y for two fractions with positive denominators
FractionLess(x, y) == x.num * y.den < y.num * x.den

(***************************************************************************)
(* The callbacks the callers of Transactions.merge pass.                   *)
(***************************************************************************)
\* a compare that accepts every pair
CompareAlways(compare, a, b) == TRUE

\* compare(a, b)
Compare(compare, a, b) ==
    CASE compare = "true" -> TRUE                    \* the default, and akahu-import
      [] compare = "akahuIdsMatch" ->                \* index.ts: main
            \/ a.akahuIds = {}
            \/ b.akahuIds = {}
            \/ a.akahuIds = b.akahuIds
      [] compare = "firstHasFireflyId" -> IsSome(a.fireflyId)   \* a caller's own predicate

\* merge(a, b): a afterwards
Combine(merge, a, b) ==
    CASE merge = "none" -> a                                                \* the default
      [] merge = "concat" -> [a EXCEPT !.description = @ \o <<" ", "-", " ">> \o b.description]
      [] merge = "takeB" -> [a EXCEPT !.description = b.description]        \* index.ts: main

Abs(x) == IF x < 0 THEN -x ELSE x
MsPerMinute == 60 * 1000
getTime(date) == date * MsPerMinute
MinutesPerDay == 24 * 60
\* a check that finds no date with a time of day
HasTimeNever(date) == FALSE

\* date.getMinutes() !== 0 || date.getHours() !== 0
HasTime(date) == date % MinutesPerDay # 0

\* Transactions.findBestTransaction: the structural filter
Matches(transaction, other, compare) ==
    /\ ~(IsSome(transaction.fireflyId) /\ IsSome(other.fireflyId)
          /\ transaction.fireflyId # other.fireflyId)
    /\ ~(IsSome(transaction.foreignAmount) /\ IsSome(other.foreignAmount)
          /\ transaction.foreignAmount # other.foreignAmount)
    /\ ~(IsSome(transaction.foreignCurrencyCode) /\ IsSome(other.foreignCurrencyCode)
          /\ transaction.foreignCurrencyCode # other.foreignCurrencyCode)
    /\ transaction.sourceId = other.sourceId
    /\ transaction.destinationId = other.destinationId
    /\ transaction.amount = other.amount
    /\ Compare(compare, transaction, other)

\* the date and description similarity of a match
Similarity(transaction, other) ==
    [date        |-> Abs(getTime(transaction.date) - getTime(other.date)),
     description |-> compareTwoStrings(transaction.description, other.description),
     transaction |-> other]

WithinWindow(x) == x.date < 3 * 24 * 60 * 60 * 1000

\* a sort that puts the most similar description first
SortsBeforeMostSimilar(a, b) ==
    \/ a.date < b.date
    \/ a.date = b.date /\ FractionLess(b.description, a.description)

\* the comparator of the sort is negative
SortsBefore(a, b) ==
    \/ a.date < b.date
    \/ a.date = b.date /\ FractionLess(a.description, b.description)

\* transactions.filter(...): the candidates that pass the structural filter
MatchesOf(transaction, transactions, compare) ==
    SelectSeq(transactions, LAMBDA other : Matches(transaction, other, compare))

\* matches.map(...).filter(...): the similarities within the window
SimilaritiesOf(transaction, matches) ==
    SelectSeq([i \in 1..Len(matches) |-> Similarity(transaction, matches[i])], WithinWindow)

\* the index of the first element of the (stable) sorted array
SortedFirst(similarities) ==
    CHOOSE i \in 1..Len(similarities) :
        /\ \A j \in 1..Len(similarities) : ~SortsBefore(similarities[j], similarities[i])
        /\ \A j \in 1..(i - 1) : SortsBefore(similarities[i], similarities[j])

\* similarities.sort(...)[0]?.transaction
BestSimilarity(similarities) ==
    IF Len(similarities) = 0 THEN None
    ELSE Some(similarities[SortedFirst(similarities)].transaction)

\* a choice that puts a single match through the window as well
BestMatchWindowAlways(transaction, matches) ==
    BestSimilarity(SimilaritiesOf(transaction, matches))

\* if (matches.length < 2) return matches[0]
BestMatch(transaction, matches) ==
    IF Len(matches) = 0 THEN None
    ELSE IF Len(matches) < 2 THEN Some(matches[1])
    ELSE BestSimilarity(SimilaritiesOf(transaction, matches))

\* Transactions.findBestTransaction
findBestTransaction(transaction, transactions, compare) ==
    BestMatch(transaction, MatchesOf(transaction, transactions, compare))

\* a ??= b
Coalesce(a, b) == IF IsSome(a) THEN a ELSE b

\* a mergeTransactions that takes the Akahu IDs of b alone
mergeTransactionsAkahuIdsOfB(a, b) ==
    [a EXCEPT !.fireflyId = Coalesce(@, b.fireflyId),
              !.akahuIds = b.akahuIds,
              !.foreignAmount = Coalesce(@, b.foreignAmount),
              !.foreignCurrencyCode = Coalesce(@, b.foreignCurrencyCode),
              !.categoryName = Coalesce(@, b.categoryName),
              !.date = IF HasTime(b.date) THEN b.date ELSE @]

\* Transactions.mergeTransactions: a afterwards
mergeTransactions(a, b) ==
    [a EXCEPT !.fireflyId = Coalesce(@, b.fireflyId),
              !.akahuIds = @ \cup b.akahuIds,
              !.foreignAmount = Coalesce(@, b.foreignAmount),
              !.foreignCurrencyCode = Coalesce(@, b.foreignCurrencyCode),
              !.categoryName = Coalesce(@, b.categoryName),
              !.date = IF HasTime(b.date) THEN b.date ELSE @]

(***************************************************************************)
(* Transactions.merge.  left holds the ids of the transactions of this     *)
(* store that are not fused yet (the Map left holds the stored objects     *)
(* themselves), right the transactions of other that are not fused yet.    *)
(* fusions records each pair mergeTransactions was called on: a is the     *)
(* transaction of this store as it was before, b the one of other.         *)
(***************************************************************************)
RemoveId(ids, id) == SelectSeq(ids, LAMBDA x : x # id)
\* a right.delete that deletes nothing
RemoveTransactionNever(transactions, id) == transactions
RemoveTransaction(transactions, id) == SelectSeq(transactions, LAMBDA t : t.id # id)

\* this.save(a) on the stored object a, which the caller has changed already
SaveMutated(s, merged) ==
    TransactionsSave([s EXCEPT !.transactions = MapSet(@, merged.id, merged)], merged)

\* mergeTransactions(a, b); merge(a, b); this.save(a)
Fuse(s, a, b, merge) == SaveMutated(s, Combine(merge, mergeTransactions(a, b), b))

\* the body of the if (match !== undefined) of either pass: a is of this store
Fused(m, a, b, merge, pass) ==
    [store   |-> Fuse(m.store, a, b, merge),
     left    |-> RemoveId(m.left, a.id),
     right   |-> RemoveTransaction(m.right, b.id),
     fusions |-> Append(m.fusions, [a |-> a, b |-> b, pass |-> pass]),
     counter |-> m.counter]

\* the callback of left.forEach, once the best match is known
FirstPassMatched(m, transaction, match, merge) ==
    IF IsSome(match) THEN Fused(m, transaction, Val(match), merge, 1) ELSE m

\* the callback of left.forEach
FirstPassVisit(m, transaction, compare, merge) ==
    FirstPassMatched(m, transaction, findBestTransaction(transaction, m.right, compare),
                     merge)

\* left.forEach(...)
RECURSIVE MergeFirstPass(_, _, _, _)
MergeFirstPass(m, todo, compare, merge) ==
    IF todo = <<>> THEN m
    ELSE MergeFirstPass(
             FirstPassVisit(m, MapGet(m.store.transactions, Head(todo)), compare, merge),
             Tail(todo), compare, merge)

\* this.create(transaction) of the else branch
Created(m, created) == [m EXCEPT !.store = created.store, !.counter = created.counter]

\* the callback of right.forEach, once the best match is known
SecondPassMatched(m, transaction, match, merge) ==
    IF IsSome(match) THEN Fused(m, Val(match), transaction, merge, 2)
    ELSE Created(m, TransactionsCreate(m.store, transaction, m.counter))

\* [...left.values()]
LeftValues(m) == [i \in 1..Len(m.left) |-> MapGet(m.store.transactions, m.left[i])]

\* the callback of right.forEach
SecondPassVisit(m, transaction, compare, merge) ==
    SecondPassMatched(m, transaction,
                      findBestTransaction(transaction, LeftValues(m), compare), merge)

\* right.forEach(...)
RECURSIVE MergeSecondPass(_, _, _, _)
MergeSecondPass(m, todo, compare, merge) ==
    IF todo = <<>> THEN m
    ELSE MergeSecondPass(SecondPassVisit(m, Head(todo), compare, merge),
                         Tail(todo), compare, merge)

\* const left = new Map(this.transactions); const right = new Map(other.transactions)
MergeStart(s, other, counter) ==
    [store   |-> s,
     left    |-> [i \in 1..Len(s.transactions) |-> s.transactions[i].k],
     right   |-> MapValues(other.transactions),
     fusions |-> <<>>,
     counter |-> counter]

FirstPass(m, compare, merge) == MergeFirstPass(m, m.left, compare, merge)
SecondPass(m, compare, merge) == MergeSecondPass(m, m.right, compare, merge)

\* return { left, right }, with the store, the fusions and the counter afterwards
MergeResult(m) == [m EXCEPT !.left = LeftValues(m)]

\* Transactions.merge: the store afterwards, the remainders it returns (left as
\* transactions) and the fusions it made
TransactionsMerge(s, other, compare, merge, counter) ==
    MergeResult(SecondPass(FirstPass(MergeStart(s, other, counter), compare, merge),
                           compare, merge))

(***************************************************************************)
(* Transactions a caller may hand to create: BaseTransaction, or one that  *)
(* differs from it in one attribute; the two with akahuIds are shaped like *)
(* feed rows, with a category or with another description.                 *)
(***************************************************************************)
BaseTransaction ==
    [id                  |-> 0,
     fireflyId           |-> None,
     akahuIds            |-> {},
     description         |-> <<"a", "b", "c">>,
     date                |-> 0,
     amount              |-> 200,
     sourceId            |-> 1,
     destinationId       |-> 2,
     foreignAmount       |-> None,
     foreignCurrencyCode |-> None,
     categoryName        |-> None]

TransactionInputs ==
    {BaseTransaction}
    \cup {[BaseTransaction EXCEPT !.fireflyId = Some(f)] : f \in {1, 2}}
    \cup {[BaseTransaction EXCEPT !.akahuIds = {"trans_1"}, !.categoryName = Some("food")]}
    \cup {[BaseTransaction EXCEPT !.akahuIds = {"trans_2"},
                                  !.description = <<"a", "b", "d">>]}
    \cup {[BaseTransaction EXCEPT !.date = d] : d \in {61, 3 * MinutesPerDay}}
    \cup {[BaseTransaction EXCEPT !.amount = 500]}
    \cup {[BaseTransaction EXCEPT !.sourceId = 3]}
    \cup {[BaseTransaction EXCEPT !.destinationId = 3]}
    \cup {[BaseTransaction EXCEPT !.foreignAmount = Some(c.amount),
                                  !.foreignCurrencyCode = Some(c.currency)] :
             c \in {[amount |-> 10, currency |-> "USD"],
                    [amount |-> 20, currency |-> "USD"],
                    [amount |-> 10, currency |-> "EUR"]}}

\* What a caller changes on the transaction it got from the store before it saves it
TransactionEdits ==
    {[field |-> "fireflyId", value |-> v] : v \in {None, Some(2)}}
    \cup {[field |-> "akahuIds", value |-> {}]}
    \cup {[field |-> "addAkahuId", value |-> "trans_2"]}

ApplyTransactionEdit(transaction, e) ==
    CASE e.field = "fireflyId"  -> [transaction EXCEPT !.fireflyId = e.value]
      [] e.field = "akahuIds"   -> [transaction EXCEPT !.akahuIds = e.value]
      [] e.field = "addAkahuId" -> [transaction EXCEPT !.akahuIds = @ \cup {e.value}]
      [] OTHER                  -> transaction

TransactionSaveInputs(s) ==
    {ApplyTransactionEdit(s.transactions[i].v, e) :
        i \in 1..Len(s.transactions), e \in TransactionEdits}
    \cup {[BaseTransaction EXCEPT !.id = MaxTransactions + 1]}

(***************************************************************************)
(* SpecTransactions: a Transactions store under any sequence of create,    *)
(* save and merge; the store merged into it is built by create and is not  *)
(* used again after the merge.                                             *)
(***************************************************************************)
NoMerge == [fusions |-> <<>>, left |-> <<>>, right |-> <<>>,
            selfBefore |-> <<>>, otherBefore |-> <<>>, compare |-> "", merge |-> ""]

InitTransactions ==
    /\ accountsCounter = 0
    /\ accStore = EmptyAccounts
    /\ accLast = [op |-> "new", outcome |-> "new", duplicate |-> FALSE, immutable |-> FALSE]
    /\ accCalls = 0
    /\ transactionsCounter = 0
    /\ txSelf = EmptyTransactions
    /\ txOther = EmptyTransactions
    /\ txLast = [op |-> "new", outcome |-> "new", arg |-> BaseTransaction, m |-> NoMerge]
    /\ txFused = {}
    /\ txCalls = 0
    /\ PipelineOff
    /\ ClonesOff

TxCall ==
    /\ txCalls < MaxCalls
    /\ txCalls' = txCalls + 1

\* A call on this store and a create on the store that is merged into it next touch
\* different stores, so the calls on this store are taken first.
CreateSelf(inputTransaction) ==
    /\ TxCall
    /\ txOther = EmptyTransactions
    /\ transactionsCounter < MaxTransactions
    /\ LET c == TransactionsCreate(txSelf, inputTransaction, transactionsCounter)
       IN  /\ txSelf' = c.store
           /\ transactionsCounter' = c.counter
    /\ txLast' = [op |-> "create", outcome |-> "created", arg |-> BaseTransaction,
                  m |-> NoMerge]
    /\ UNCHANGED <<txOther, txFused>>

CreateOther(inputTransaction) ==
    /\ TxCall
    /\ transactionsCounter < MaxTransactions
    /\ LET c == TransactionsCreate(txOther, inputTransaction, transactionsCounter)
       IN  /\ txOther' = c.store
           /\ transactionsCounter' = c.counter
    /\ txLast' = [op |-> "createOther", outcome |-> "created", arg |-> BaseTransaction,
                  m |-> NoMerge]
    /\ UNCHANGED <<txSelf, txFused>>

SaveSelf(transaction) ==
    /\ TxCall
    /\ txOther = EmptyTransactions
    /\ txSelf' = TransactionsSave(txSelf, transaction)
    /\ txLast' = [op |-> "save", outcome |-> TransactionsSaveOutcome(txSelf, transaction),
                  arg |-> transaction, m |-> NoMerge]
    /\ UNCHANGED <<transactionsCounter, txOther, txFused>>

\* the state after a merge that returned m
Merged(m, compare, merge) ==
    /\ txSelf' = m.store
    /\ transactionsCounter' = m.counter
    /\ txFused' = txFused \cup {m.fusions[i].a.id : i \in 1..Len(m.fusions)}
    /\ txLast' = [op |-> "merge", outcome |-> "merged", arg |-> BaseTransaction,
                  m |-> [fusions |-> m.fusions, left |-> m.left, right |-> m.right,
                         selfBefore |-> MapValues(txSelf.transactions),
                         otherBefore |-> MapValues(txOther.transactions),
                         compare |-> compare, merge |-> merge]]

Merge(compare, merge) ==
    /\ TxCall
    /\ Merged(TransactionsMerge(txSelf, txOther, compare, merge, transactionsCounter),
              compare, merge)
    /\ txOther' = EmptyTransactions

\* the callbacks of the callers: the defaults, akahu-import, main, a caller's own
MergeCallbacks ==
    { [compare |-> "true", merge |-> "none"],
      [compare |-> "true", merge |-> "concat"],
      [compare |-> "akahuIdsMatch", merge |-> "takeB"],
      [compare |-> "firstHasFireflyId", merge |-> "none"] }

NextTransactions ==
    \/ \E t \in TransactionInputs : CreateSelf(t)
    \/ \E t \in TransactionInputs : CreateOther(t)
    \/ \E t \in TransactionSaveInputs(txSelf) : SaveSelf(t)
    \/ \E c \in MergeCallbacks : Merge(c.compare, c.merge)

SpecTransactions ==
    InitTransactions /\ [][NextTransactions /\ UNCHANGED <<accVars, pipeVars, cloneVars>>]_vars

(***************************************************************************)
(* Properties of a Transactions store, checked under SpecTransactions.     *)
(***************************************************************************)
StoredTransactions(s) == {s.transactions[i].v : i \in 1..Len(s.transactions)}
StoredTransactionIds(s) == {s.transactions[i].k : i \in 1..Len(s.transactions)}
Threw(outcome) == outcome \in {"throw: Firefly ID", "throw: Akahu IDs"}

\* the step is a save of a transaction whose id is stored
SavesStored == txLast'.op = "save" /\ MapHas(txSelf.transactions, txLast'.arg.id)
SavedBefore == MapGet(txSelf.transactions, txLast'.arg.id)

\* C3: a stored transaction whose fireflyId is defined keeps that fireflyId in every
\* step (create, save, merge), and a save whose argument has another fireflyId, or
\* none, than the defined one of the stored transaction throws and changes nothing.
C3_FireflyIdWriteOnce ==
    [][ /\ \A id \in StoredTransactionIds(txSelf) :
              IsSome(MapGet(txSelf.transactions, id).fireflyId)
              => /\ MapHas(txSelf'.transactions, id)
                 /\ MapGet(txSelf'.transactions, id).fireflyId
                       = MapGet(txSelf.transactions, id).fireflyId
        /\ (SavesStored /\ IsSome(SavedBefore.fireflyId)
                        /\ txLast'.arg.fireflyId # SavedBefore.fireflyId)
           => (txLast'.outcome = "throw: Firefly ID" /\ txSelf' = txSelf) ]_vars

\* a save that would change the fireflyId a merge has left on a fused transaction
\* has been rejected
C3_Witness ==
    /\ txLast.op = "save"
    /\ txLast.outcome = "throw: Firefly ID"
    /\ txLast.arg.id \in txFused
    /\ IsSome(txLast.arg.fireflyId)

\* C4: the akahuIds of a stored transaction after any step (create, save, merge) are
\* a superset of its akahuIds before, and a save whose argument lacks one of the
\* stored akahuIds throws and changes nothing.
C4_AkahuIdsMonotone ==
    [][ /\ \A id \in StoredTransactionIds(txSelf) :
              /\ MapHas(txSelf'.transactions, id)
              /\ MapGet(txSelf.transactions, id).akahuIds
                    \subseteq MapGet(txSelf'.transactions, id).akahuIds
        /\ (SavesStored /\ ~(SavedBefore.akahuIds \subseteq txLast'.arg.akahuIds))
           => (Threw(txLast'.outcome) /\ txSelf' = txSelf) ]_vars

\* a merge has fused a transaction that had akahuIds with one that has others
C4_Witness ==
    /\ txLast.op = "merge"
    /\ \E i \in 1..Len(txLast.m.fusions) :
          LET f == txLast.m.fusions[i]
          IN  /\ f.a.akahuIds # {}
              /\ f.b.akahuIds # {}
              /\ f.a.akahuIds # f.b.akahuIds
              /\ (f.a.akahuIds \cup f.b.akahuIds)
                    \subseteq MapGet(txSelf.transactions, f.a.id).akahuIds

NoSharedTransactionKeys(s) ==
    \A t, u \in StoredTransactions(s) :
        t.id # u.id
        => /\ ~(IsSome(t.fireflyId) /\ t.fireflyId = u.fireflyId)
           /\ t.akahuIds \cap u.akahuIds = {}

\* C5: no fireflyId and no akahuId is carried by two distinct transactions of the
\* store, after any sequence of create, save and merge.
C5_UniqueTransactionKeys == NoSharedTransactionKeys(txSelf)

\* findBestTransaction's conditions on a pair, but for the caller's predicate
StructurallyEqual(a, b) ==
    /\ a.sourceId = b.sourceId
    /\ a.destinationId = b.destinationId
    /\ a.amount = b.amount
    /\ (IsSome(a.fireflyId) /\ IsSome(b.fireflyId)) => a.fireflyId = b.fireflyId
    /\ (IsSome(a.foreignAmount) /\ IsSome(b.foreignAmount))
          => a.foreignAmount = b.foreignAmount
    /\ (IsSome(a.foreignCurrencyCode) /\ IsSome(b.foreignCurrencyCode))
          => a.foreignCurrencyCode = b.foreignCurrencyCode

\* C7: every pair (a of this store, b of other) a merge has fused, in either pass,
\* has equal sourceId, destinationId and amount, no two different fireflyIds,
\* foreignAmounts or foreignCurrencyCodes, and compare(a, b) is true.
C7_FusedPairsEquivalent ==
    txLast.op = "merge"
    => \A i \in 1..Len(txLast.m.fusions) :
          LET f == txLast.m.fusions[i]
          IN  StructurallyEqual(f.a, f.b) /\ Compare(txLast.m.compare, f.a, f.b)

IdsOf(transactions) == {transactions[i].id : i \in 1..Len(transactions)}
FusionsOfSelf(m, id) == {i \in 1..Len(m.fusions) : m.fusions[i].a.id = id}
FusionsOfOther(m, id) == {i \in 1..Len(m.fusions) : m.fusions[i].b.id = id}

\* C8: after a merge, every transaction of this store and of other is in at most one
\* fusion; every transaction of other is either in exactly one fusion or stored in
\* this store; this store holds |self| + |other| - |fusions| transactions; and every
\* akahuId of a transaction of other is carried by a transaction of this store.
C8_MergeAccounting ==
    txLast.op = "merge"
    => LET m == txLast.m
       IN  /\ \A id \in IdsOf(m.selfBefore) : Cardinality(FusionsOfSelf(m, id)) <= 1
           /\ \A id \in IdsOf(m.otherBefore) : Cardinality(FusionsOfOther(m, id)) <= 1
           /\ \A id \in IdsOf(m.otherBefore) :
                 (Cardinality(FusionsOfOther(m, id)) = 1)
                   # (id \in StoredTransactionIds(txSelf))
           /\ Len(txSelf.transactions)
                 = Len(m.selfBefore) + Len(m.otherBefore) - Len(m.fusions)
           /\ \A i \in 1..Len(m.otherBefore) : \A k \in m.otherBefore[i].akahuIds :
                 \E t \in StoredTransactions(txSelf) : k \in t.akahuIds

\* a merge has fused one transaction of other and created another one of other
C8_Witness ==
    /\ txLast.op = "merge"
    /\ Len(txLast.m.fusions) >= 1
    /\ Len(txLast.m.otherBefore) > Len(txLast.m.fusions)
    /\ Len(txLast.m.selfBefore) >= 1
    /\ \E i \in 1..Len(txLast.m.otherBefore) : txLast.m.otherBefore[i].akahuIds # {}

(***************************************************************************)
(* Strings.  Account names, ids and bank numbers are strings; a text whose *)
(* characters the code looks at (a feed description, a reference) is a     *)
(* sequence of characters, and Chars gives the characters of a normalized  *)
(* account name.                                                           *)
(***************************************************************************)
\* String.trim on the names of the model
TrimName(name) ==
    CASE name = "Coffee " -> "Coffee"
      [] OTHER            -> name

Chars(name) ==
    CASE name = "cheque"    -> <<"c", "h", "e", "q", "u", "e">>
      [] name = "savings"   -> <<"s", "a", "v", "i", "n", "g", "s">>
      [] name = "coffee"    -> <<"c", "o", "f", "f", "e", "e">>
      [] name = "coffee co" -> <<"c", "o", "f", "f", "e", "e", " ", "c", "o">>
      [] name = "interest"  -> <<"i", "n", "t", "e", "r", "e", "s", "t">>
      [] name = "bank"      -> <<"b", "a", "n", "k">>
      [] OTHER              -> <<>>

\* String.startsWith on the ids of the model
StartsWith(str, prefix) ==
    CASE prefix = "trans_" ->
            str \in {"trans_1", "trans_2", "trans_3", "trans_4", "trans_5", "trans_6"}
      [] prefix = "acc_"   -> str \in {"acc_1", "acc_2", "acc_9"}
      [] OTHER             -> FALSE

\* the order of the strings of the model
StringRank(str) ==
    CASE str = "01-0001-0000001-001" -> 1
      [] str = "02-0002-0000002-002" -> 2
      [] str = "trans_1" -> 3
      [] str = "trans_2" -> 4
      [] str = "trans_3" -> 5
      [] str = "trans_4" -> 6
      [] str = "trans_5" -> 7
      [] str = "trans_6" -> 8
      [] OTHER -> 9

\* [...set].sort()
RECURSIVE SortStrings(_)
SortStrings(S) ==
    IF S = {} THEN <<>>
    ELSE LET x == CHOOSE y \in S : \A z \in S : StringRank(y) <= StringRank(z)
         IN  <<x>> \o SortStrings(S \ {x})

\* Accounts.formatBankNumber on the bank numbers of the model
formatBankNumber(bankNumber) ==
    CASE bankNumber = "1-1-1-1" -> "01-0001-0000001-001"
      [] bankNumber = "2-2-2-2" -> "02-0002-0000002-002"
      [] OTHER                  -> bankNumber

\* /^\d+-\d+-\d+-\d+$/.test(number)
IsBankNumber(number) ==
    number \in {"1-1-1-1", "2-2-2-2", "01-0001-0000001-001", "02-0002-0000002-002"}

\* String.toLowerCase
toLowerCase(str) ==
    [i \in 1..Len(str) |->
        CASE str[i] = "C" -> "c"
          [] str[i] = "I" -> "i"
          [] str[i] = "S" -> "s"
          [] OTHER        -> str[i]]

\* String.trim
trim(str) ==
    LET kept == {i \in 1..Len(str) : str[i] # " "}
    IN  IF kept = {} THEN <<>>
        ELSE SubSeq(str, CHOOSE i \in kept : \A j \in kept : i <= j,
                         CHOOSE i \in kept : \A j \in kept : i >= j)

\* the places at which pattern occurs in str
Occurrences(str, pattern) ==
    {i \in 1..(Len(str) - Len(pattern) + 1) : SubSeq(str, i, i + Len(pattern) - 1) = pattern}

\* String.includes
includes(str, pattern) == Occurrences(str, pattern) # {}

\* String.replace(pattern, '')
replace(str, pattern) ==
    LET found == Occurrences(str, pattern)
        first == CHOOSE i \in found : \A j \in found : i <= j
    IN  IF pattern = <<>> \/ found = {} THEN str
        ELSE SubSeq(str, 1, first - 1) \o SubSeq(str, first + Len(pattern), Len(str))

(***************************************************************************)
(* Notes of a ledger account.  A note is the sequence of its parts: plain  *)
(* text ("text"), a blank line ("ws"), an "**Akahu ID** `id`" line         *)
(* ("akahu"), an "**Alternate names**" list ("alt").  sep is the white     *)
(* space the regular expressions allow between the marker and the back     *)
(* quote: updateNotes writes one space.  Two notes are the same string iff *)
(* they are the same sequence.  AKAHU_ID_REGEX matches the parts of kind   *)
(* "akahu", ALT_NAMES_REGEX those of kind "alt".                           *)
(***************************************************************************)
NotePart(t, id, sep, names) == [t |-> t, id |-> id, sep |-> sep, names |-> names]
BlankLine == NotePart("ws", "", "\n\n", <<>>)

\* regex.test(notes)
Test(notes, kind) == \E i \in 1..Len(notes) : notes[i].t = kind
\* notes.match(regex)
FirstMatch(notes, kind) ==
    notes[CHOOSE i \in 1..Len(notes) :
              notes[i].t = kind /\ \A j \in 1..(i - 1) : notes[j].t # kind]
\* notes.replace(regex, '')
ReplaceMatch(notes, kind) ==
    IF Test(notes, kind)
    THEN RemoveAt(notes, CHOOSE i \in 1..Len(notes) :
                             notes[i].t = kind /\ \A j \in 1..(i - 1) : notes[j].t # kind)
    ELSE notes
\* notes.trim()
TrimNotes(notes) ==
    LET kept == {i \in 1..Len(notes) : notes[i].t # "ws"}
    IN  IF kept = {} THEN <<>>
        ELSE SubSeq(notes, CHOOSE i \in kept : \A j \in kept : i <= j,
                           CHOOSE i \in kept : \A j \in kept : i >= j)

\* Firefly.updateNotes; the back quote of a name becomes a quote
updateNotes(notes, akahuId, otherNames) ==
    LET stripped == TrimNotes(ReplaceMatch(
                        ReplaceMatch(IF IsSome(notes) THEN Val(notes) ELSE <<>>, "akahu"),
                        "alt"))
        withId   == IF IsSome(akahuId)
                    THEN stripped \o <<BlankLine, NotePart("akahu", Val(akahuId), " ", <<>>)>>
                    ELSE stripped
        list     == [i \in 1..Len(otherNames) |->
                        IF otherNames[i] = "Joe(back quote)s" THEN "Joe(quote)s"
                        ELSE otherNames[i]]
    IN  TrimNotes(IF Len(otherNames) > 0
                  THEN withId \o <<BlankLine, NotePart("alt", "", " ", list)>>
                  ELSE withId)

(***************************************************************************)
(* More of class Accounts: getByBankNumber, getByNameFuzzy, duplicate; and *)
(* Transactions.duplicate.                                                 *)
(***************************************************************************)
AccountsGetByBankNumber(s, bankNumber) ==
    IF FnHas(s.bankNumberIndex, formatBankNumber(bankNumber))
    THEN AccountsGet(s, s.bankNumberIndex[formatBankNumber(bankNumber)])
    ELSE None

\* the loop of getByNameFuzzy: best is [account, rating], rating a fraction
RECURSIVE FuzzyScan(_, _, _)
FuzzyScan(entries, source, best) ==
    IF entries = <<>> THEN best
    ELSE LET rating == compareTwoStrings(source, Chars(Head(entries).k))
         IN  FuzzyScan(Tail(entries), source,
                       IF FractionLess(best.rating, rating)
                       THEN [account |-> Some(Head(entries).v), rating |-> rating]
                       ELSE best)

\* Accounts.getByNameFuzzy: [error, account, rating]
getByNameFuzzy(s, source) ==
    LET best == FuzzyScan(s.nameIndex, trim(toLowerCase(source)),
                          [account |-> None, rating |-> [num |-> 0, den |-> 1]])
    IN  IF IsSome(best.account)
        THEN [error |-> "", account |-> AccountsGet(s, Val(best.account)),
              rating |-> best.rating]
        ELSE [error |-> "NoAccounts", account |-> None, rating |-> best.rating]

RECURSIVE IndexAll(_, _)
IndexAll(s, accounts) ==
    IF accounts = <<>> THEN s
    ELSE IndexAll(AccountsIndex(s, Head(accounts)), Tail(accounts))

\* a duplicate that copies no account
AccountsDuplicateNone(s) == EmptyAccounts
\* Accounts.duplicate
AccountsDuplicate(s) == IndexAll(EmptyAccounts, MapValues(s.accounts))

\* Transactions.duplicate
TransactionsDuplicate(s) ==
    [transactions   |-> s.transactions,
     fireflyIdIndex |-> s.fireflyIdIndex,
     akahuIdIndex   |-> s.akahuIdIndex]

(***************************************************************************)
(* class Firefly: the ledger import.  A row of the accounts query is       *)
(* [id, type, name, notes, account_number]: notes is null (None) or a      *)
(* note, account_number is null or the comma separated numbers.  A row of  *)
(* the transactions query is [id, description, date, amount, source_id,    *)
(* destination_id, foreign_amount, foreign_currency_code, external_id,     *)
(* category_name], external_id being null or the comma separated ids.      *)
(***************************************************************************)
\* Firefly.TypeMapping
TypeMapping(type) ==
    CASE type \in {"Default account", "Cash account", "Asset account"} -> Some("asset")
      [] type = "Expense account" -> Some("expense")
      [] type = "Revenue account" -> Some("revenue")
      [] type \in {"Loan", "Debt", "Mortgage"} -> Some("liability")
      [] OTHER -> None

\* Firefly.transactionMapping
transactionMapping(sourceType, destinationType) ==
    CASE sourceType = "asset" /\ destinationType = "asset" -> Some("transfer")
      [] sourceType = "asset" /\ destinationType \in {"liability", "expense"} -> Some("withdrawal")
      [] sourceType = "liability" /\ destinationType = "asset" -> Some("deposit")
      [] sourceType = "liability" /\ destinationType = "liability" -> Some("transfer")
      [] sourceType = "liability" /\ destinationType = "expense" -> Some("withdrawal")
      [] sourceType = "revenue" /\ destinationType \in {"asset", "liability"} -> Some("deposit")
      [] OTHER -> None

\* new Map([...m, ...entries])
RECURSIVE SetAll(_, _)
SetAll(m, entries) ==
    IF entries = <<>> THEN m
    ELSE SetAll(MapSet(m, Head(entries).k, Head(entries).v), Tail(entries))

\* the Account importAccounts builds from a row of type type
RowAccount(fireflyAccount, type) ==
    LET notes    == fireflyAccount.notes
        role     == [fireflyId |-> Some(fireflyAccount.id), type |-> type, notes |-> notes]
        name     == TrimName(fireflyAccount.name)
        numbers  == IF IsSome(fireflyAccount.account_number)
                    THEN Val(fireflyAccount.account_number) ELSE <<>>
        altNames == IF IsSome(notes) /\ Test(Val(notes), "alt")
                    THEN FirstMatch(Val(notes), "alt").names ELSE <<>>
    IN  [id             |-> 0,
         source         |-> IF type = "expense" THEN None ELSE Some(role),
         destination    |-> IF type = "revenue" THEN None ELSE Some(role),
         akahuId        |-> IF IsSome(notes) /\ Test(Val(notes), "akahu")
                            THEN Some(FirstMatch(Val(notes), "akahu").id) ELSE None,
         name           |-> name,
         bankNumbers    |-> {formatBankNumber(numbers[i]) :
                                i \in {j \in 1..Len(numbers) : IsBankNumber(numbers[j])}},
         alternateNames |-> SetAll(<<[k |-> normalizeName(name), v |-> name]>>,
                                   [i \in 1..Len(altNames) |->
                                       [k |-> normalizeName(altNames[i]), v |-> altNames[i]]])]

\* addAccount of findMatches, for each lookup in turn
RECURSIVE AddAccounts(_, _)
AddAccounts(matches, lookups) ==
    IF lookups = <<>> THEN matches
    ELSE IF IsSome(Head(lookups))
         THEN AddAccounts(MapSet(matches, Val(Head(lookups)).id, Val(Head(lookups))),
                          Tail(lookups))
         ELSE AddAccounts(matches, Tail(lookups))

\* Firefly.findMatches
findMatches(s, account) ==
    MapValues(AddAccounts(<<>>,
        [i \in 1..Len(account.alternateNames) |->
            AccountsGetByName(s, account.alternateNames[i].v)]
        \o [i \in 1..Cardinality(account.bankNumbers) |->
               AccountsGetByBankNumber(s, SortStrings(account.bankNumbers)[i])]
        \o <<IF IsSome(account.akahuId) THEN AccountsGetByAkahuId(s, Val(account.akahuId))
             ELSE None,
             IF IsSome(RoleFireflyId(account.source))
             THEN AccountsGetByFireflyId(s, Val(RoleFireflyId(account.source))) ELSE None,
             IF IsSome(RoleFireflyId(account.destination))
             THEN AccountsGetByFireflyId(s, Val(RoleFireflyId(account.destination)))
             ELSE None>>))

\* Firefly.mergeAccounts: [error, account]
mergeAccounts(a, b) ==
    [error   |-> IF IsSome(a.source) /\ IsSome(b.source) THEN "Merging two accounts with Source Firefly IDs"
                 ELSE IF IsSome(a.destination) /\ IsSome(b.destination) THEN "Merging two accounts with Destination Firefly IDs"
                 ELSE IF IsSome(a.akahuId) /\ IsSome(b.akahuId) /\ a.akahuId # b.akahuId
                      THEN "Merging mismatched Akahu IDs"
                 ELSE IF a.name # b.name THEN "Merging mismatched names"
                 ELSE "",
     account |-> [id             |-> a.id,
                  source         |-> Coalesce(a.source, b.source),
                  destination    |-> Coalesce(a.destination, b.destination),
                  akahuId        |-> Coalesce(a.akahuId, b.akahuId),
                  name           |-> a.name,
                  bankNumbers    |-> a.bankNumbers \cup b.bankNumbers,
                  alternateNames |-> SetAll(a.alternateNames, b.alternateNames)]]

\* the callback of fireflyAccounts.forEach, for a row of a mapped type; the
\* state of the import is [accounts, counter, error]
ImportAccount(r, account, type, matches) ==
    IF Len(matches) = 0
    THEN [r EXCEPT !.accounts = AccountsCreate(r.accounts, account, r.counter + 1),
                   !.counter = r.counter + 1]
    ELSE IF Len(matches) = 1 /\ type \in {"revenue", "expense"}
         THEN LET m == mergeAccounts(matches[1], account)
              IN  IF m.error # "" THEN [r EXCEPT !.error = m.error]
                  ELSE IF AccountsSaveOutcome(r.accounts, m.account)
                              \notin {"saved", "logged: id doesn't exist"}
                       THEN [r EXCEPT !.error = "ImmutableField"]
                  ELSE [r EXCEPT !.accounts = AccountsSave(r.accounts, m.account)]
    ELSE [r EXCEPT !.error = "AccountConflict"]

\* Firefly.importAccounts: rows are the rows still to import
RECURSIVE importAccounts(_, _)
importAccounts(r, rows) ==
    IF rows = <<>> \/ r.error # "" THEN r
    ELSE IF IsSome(TypeMapping(Head(rows).type))
         THEN importAccounts(
                  ImportAccount(r, RowAccount(Head(rows), Val(TypeMapping(Head(rows).type))),
                                Val(TypeMapping(Head(rows).type)),
                                findMatches(r.accounts,
                                    RowAccount(Head(rows), Val(TypeMapping(Head(rows).type))))),
                  Tail(rows))
    ELSE importAccounts(r, Tail(rows))

\* the Transaction importTransactions builds from a row
RowTransaction(fireflyTransaction, source, destination) ==
    LET externalIds == IF IsSome(fireflyTransaction.external_id)
                       THEN Val(fireflyTransaction.external_id) ELSE <<>>
    IN  [id                  |-> 0,
         fireflyId           |-> Some(fireflyTransaction.id),
         akahuIds            |-> {externalIds[i] :
                                     i \in {j \in 1..Len(externalIds) :
                                               StartsWith(externalIds[j], "trans_")}},
         description         |-> fireflyTransaction.description,
         date                |-> fireflyTransaction.date,
         amount              |-> fireflyTransaction.amount,
         sourceId            |-> source.id,
         destinationId       |-> destination.id,
         foreignAmount       |-> fireflyTransaction.foreign_amount,
         foreignCurrencyCode |-> fireflyTransaction.foreign_currency_code,
         categoryName        |-> fireflyTransaction.category_name]

\* the callback of fireflyTransactions.forEach; the state is [store, counter, error]
ImportTransaction(r, fireflyTransaction, source, destination) ==
    IF IsSome(source) /\ IsSome(destination)
    THEN LET created == TransactionsCreate(r.store,
                            RowTransaction(fireflyTransaction, Val(source), Val(destination)),
                            r.counter)
         IN  [r EXCEPT !.store = created.store, !.counter = created.counter]
    ELSE [r EXCEPT !.error = "MissingAccount"]

\* Firefly.importTransactions: rows are the rows still to import
RECURSIVE importLedgerTransactions(_, _, _)
importLedgerTransactions(r, accounts, rows) ==
    IF rows = <<>> \/ r.error # "" THEN r
    ELSE importLedgerTransactions(
             ImportTransaction(r, Head(rows),
                               AccountsGetByFireflyId(accounts, Head(rows).source_id),
                               AccountsGetByFireflyId(accounts, Head(rows).destination_id)),
             accounts, Tail(rows))

(***************************************************************************)
(* akahu-import.  A feed row is [_id, _account, amount, date, description, *)
(* merchant, meta, category]: merchant is absent (None) or [_id, name],    *)
(* meta is absent or [other_account, reference, conversion] (the rows of   *)
(* the model have no code and no particulars), category is absent or the   *)
(* name of its personal finance group.  date is the ISO string, as its     *)
(* [day, minute].                                                          *)
(***************************************************************************)
\* new Date(transaction.date)
ParseDate(date) == date.day * MinutesPerDay + date.minute

\* a findAccount that lets the fuzzy match of the description override the
\* account found by the merchant or the bank number
findAccountFuzzyLast(s, transaction) ==
    LET interest == IF includes(toLowerCase(transaction.description),
                                <<"i", "n", "t", "e", "r", "e", "s", "t">>)
                    THEN AccountsGetByName(s, "Interest") ELSE None
        merchant == IF IsSome(transaction.merchant)
                    THEN AccountsGetByAkahuId(s, Val(transaction.merchant)._id) ELSE None
        match    == getByNameFuzzy(s, transaction.description)
    IN  IF match.error = "" THEN [error |-> "", account |-> match.account]
        ELSE IF IsSome(Coalesce(interest, merchant))
             THEN [error |-> "", account |-> Coalesce(interest, merchant)]
        ELSE [error |-> match.error, account |-> None]

\* findAccount: [error, account]
findAccount(s, transaction) ==
    LET meta      == transaction.meta
        reference == IF IsSome(Val(meta).reference) THEN Val(Val(meta).reference) ELSE <<>>
        interest  == IF includes(toLowerCase(transaction.description),
                                 <<"i", "n", "t", "e", "r", "e", "s", "t">>)
                     THEN AccountsGetByName(s, "Interest") ELSE None
        merchant  == IF IsSome(transaction.merchant)
                     THEN AccountsGetByAkahuId(s, Val(transaction.merchant)._id) ELSE None
        bank      == IF IsSome(meta)
                     THEN AccountsGetByBankNumber(s,
                              IF IsSome(Val(meta).other_account)
                              THEN Val(Val(meta).other_account) ELSE "")
                     ELSE None
        exact     == Coalesce(interest, Coalesce(merchant, bank))
        match     == getByNameFuzzy(s, transaction.description)
        newMatch  == getByNameFuzzy(s, replace(transaction.description, reference))
    IN  IF IsSome(exact) THEN [error |-> "", account |-> exact]
        ELSE IF match.error # "" THEN [error |-> match.error, account |-> None]
        ELSE IF IsSome(meta) /\ newMatch.error # ""
             THEN [error |-> newMatch.error, account |-> None]
        ELSE IF IsSome(meta) /\ FractionLess(match.rating, newMatch.rating)
             THEN [error |-> "", account |-> newMatch.account]
        ELSE [error |-> "", account |-> match.account]

\* a newTrans with the amount of the feed as it is signed
FeedTransactionSigned(transaction, source, destination) ==
    LET meta       == transaction.meta
        conversion == IF IsSome(meta) THEN Val(meta).conversion ELSE None
    IN  [id                  |-> 0,
         fireflyId           |-> None,
         akahuIds            |-> {transaction._id},
         description         |-> IF IsSome(meta)
                                 THEN trim(replace(transaction.description,
                                          IF IsSome(Val(meta).reference)
                                          THEN Val(Val(meta).reference) ELSE <<>>))
                                 ELSE transaction.description,
         date                |-> ParseDate(transaction.date),
         amount              |-> transaction.amount,
         sourceId            |-> source.id,
         destinationId       |-> destination.id,
         foreignAmount       |-> IF IsSome(conversion) THEN Some(Abs(Val(conversion).amount))
                                 ELSE None,
         foreignCurrencyCode |-> IF IsSome(conversion) THEN Some(Val(conversion).currency)
                                 ELSE None,
         categoryName        |-> transaction.category]

\* newTrans of transformTransaction
FeedTransaction(transaction, source, destination) ==
    LET meta       == transaction.meta
        conversion == IF IsSome(meta) THEN Val(meta).conversion ELSE None
    IN  [id                  |-> 0,
         fireflyId           |-> None,
         akahuIds            |-> {transaction._id},
         description         |-> IF IsSome(meta)
                                 THEN trim(replace(transaction.description,
                                          IF IsSome(Val(meta).reference)
                                          THEN Val(Val(meta).reference) ELSE <<>>))
                                 ELSE transaction.description,
         date                |-> ParseDate(transaction.date),
         amount              |-> Abs(transaction.amount),
         sourceId            |-> source.id,
         destinationId       |-> destination.id,
         foreignAmount       |-> IF IsSome(conversion) THEN Some(Abs(Val(conversion).amount))
                                 ELSE None,
         foreignCurrencyCode |-> IF IsSome(conversion) THEN Some(Val(conversion).currency)
                                 ELSE None,
         categoryName        |-> transaction.category]

\* transformTransaction of akahu-import: [error, accounts, transaction]
feedTransformTransaction(s, transaction) ==
    LET account      == AccountsGetByAkahuId(s, transaction._account)
        found        == findAccount(s, transaction)
        foundAccount == Val(found.account)
        merchant     == Val(transaction.merchant)
    IN  IF ~IsSome(account)
        THEN [error |-> "UnconfiguredAccount", accounts |-> s, transaction |-> BaseTransaction]
        ELSE IF found.error # ""
             THEN [error |-> found.error, accounts |-> s, transaction |-> BaseTransaction]
        ELSE [error       |-> "",
              accounts    |-> IF IsSome(transaction.merchant) /\ ~IsSome(foundAccount.akahuId)
                              THEN AccountsSave(s,
                                       [foundAccount EXCEPT
                                           !.alternateNames =
                                               MapSet(@, normalizeName(merchant.name),
                                                      merchant.name),
                                           !.akahuId = Some(merchant._id)])
                              ELSE s,
              transaction |-> IF transaction.amount < 0
                              THEN FeedTransaction(transaction, Val(account), foundAccount)
                              ELSE FeedTransaction(transaction, foundAccount, Val(account))]

\* Detect if this is an internal transfer of funds
IsInternalTransfer(s, transaction) ==
    \A id \in {transaction.sourceId, transaction.destinationId} :
        /\ IsSome(AccountsGet(s, id))
        /\ IsSome(Val(AccountsGet(s, id)).akahuId)
        /\ StartsWith(Val(Val(AccountsGet(s, id)).akahuId), "acc_")

\* the callback of akahuTransactions.forEach, t being the transformed row; the
\* state is [accounts, positive, negative, normalTransactions, counter, error]
FeedRow(f, akahuTransaction, t) ==
    IF t.error # "" THEN [f EXCEPT !.error = t.error]
    ELSE IF IsInternalTransfer(t.accounts, t.transaction)
         THEN IF akahuTransaction.amount < 0
              THEN LET created == TransactionsCreate(f.negative, t.transaction, f.counter)
                   IN  [f EXCEPT !.accounts = t.accounts, !.negative = created.store,
                                 !.counter = created.counter]
              ELSE LET created == TransactionsCreate(f.positive, t.transaction, f.counter)
                   IN  [f EXCEPT !.accounts = t.accounts, !.positive = created.store,
                                 !.counter = created.counter]
    ELSE [f EXCEPT !.accounts = t.accounts,
                   !.normalTransactions = Append(@, t.transaction)]

\* akahuTransactions.forEach(...)
RECURSIVE FeedRows(_, _)
FeedRows(f, rows) ==
    IF rows = <<>> \/ f.error # "" THEN f
    ELSE FeedRows(FeedRow(f, Head(rows), feedTransformTransaction(f.accounts, Head(rows))),
                  Tail(rows))

\* a remainder that leaves out the transactions of the negative pool
UnmatchedLeftOnly(remainders) == remainders.left
\* [...remainders.left.values(), ...remainders.right.values()]
Unmatched(remainders) == remainders.left \o remainders.right

\* normalTransactions.forEach(transaction => positive.create(transaction))
RECURSIVE CreateAll(_, _)
CreateAll(c, transactions) ==
    IF transactions = <<>> THEN c
    ELSE CreateAll(TransactionsCreate(c.store, Head(transactions), c.counter),
                   Tail(transactions))

NoFeedImport ==
    [positive |-> <<>>, negative |-> <<>>, fusions |-> <<>>, unmatched |-> <<>>,
     merged |-> FALSE]

\* importTransactions of akahu-import, f being the state after the rows: [error,
\* accounts, store, counter, pools (the two pools before the merge, the fusions
\* and the unmatched transactions)]
importTransactions(f) ==
    LET m       == TransactionsMerge(f.positive, f.negative, "true", "concat", f.counter)
        created == CreateAll([store |-> m.store, counter |-> m.counter],
                             f.normalTransactions)
    IN  IF f.error # ""
        THEN [error |-> f.error, accounts |-> f.accounts, store |-> EmptyTransactions,
              counter |-> f.counter, pools |-> NoFeedImport]
        ELSE [error    |-> IF Len(Unmatched(m)) # 0 THEN "UnmatchedTransfer" ELSE "",
              accounts |-> f.accounts,
              store    |-> IF Len(Unmatched(m)) # 0 THEN EmptyTransactions ELSE created.store,
              counter  |-> IF Len(Unmatched(m)) # 0 THEN m.counter ELSE created.counter,
              pools    |-> [positive  |-> MapValues(f.positive.transactions),
                            negative  |-> MapValues(f.negative.transactions),
                            fusions   |-> m.fusions,
                            unmatched |-> Unmatched(m),
                            merged    |-> TRUE]]

(***************************************************************************)
(* class Firefly: the export.  A request is [op, id, type, body]: op is    *)
(* the API call, id the Firefly ID an update is sent to, type the type of  *)
(* a created account.                                                      *)
(***************************************************************************)
\* number.toString() of a Firefly ID, Big.toString() of an amount in cents,
\* Date.toISOString
IdString(id) == [digits |-> id]
DecimalString(amount) == [whole |-> amount \div 100, cents |-> amount % 100]
toISOString(date) == [day |-> date \div MinutesPerDay, minute |-> date % MinutesPerDay]

\* the first loop of export; the state of an export is [accounts, requests, error]
RECURSIVE Prepass(_, _)
Prepass(e, transactions) ==
    IF transactions = <<>> \/ e.error # "" THEN e
    ELSE LET source       == AccountsGet(e.accounts, Head(transactions).sourceId)
             withSource   == IF IsSome(source) /\ ~IsSome(Val(source).source)
                             THEN AccountsSave(e.accounts,
                                      [Val(source) EXCEPT
                                          !.source = Some(Role(None, "revenue"))])
                             ELSE e.accounts
             destination  == AccountsGet(withSource, Head(transactions).destinationId)
         IN  IF ~IsSome(source) \/ ~IsSome(destination)
             THEN [e EXCEPT !.accounts = withSource, !.error = "InvalidAccountId"]
             ELSE Prepass([e EXCEPT !.accounts =
                              IF ~IsSome(Val(destination).destination)
                              THEN AccountsSave(withSource,
                                       [Val(destination) EXCEPT
                                           !.destination = Some(Role(None, "expense"))])
                              ELSE withSource],
                          Tail(transactions))

\* Firefly.updateAccount: the requests afterwards
updateAccount(sent, account, oldAccount, select) ==
    LET sourceDest == IF select = "source" THEN account.source ELSE account.destination
        oldRole    == IF select = "source" THEN Val(oldAccount).source
                      ELSE Val(oldAccount).destination
        update     == [name           |-> account.name,
                       account_number |-> SortStrings(account.bankNumbers),
                       notes          |-> updateNotes(Val(sourceDest).notes, account.akahuId,
                                              MapValues(MapDelete(account.alternateNames,
                                                            normalizeName(account.name))))]
        oldUpdate  == [name           |-> Val(oldAccount).name,
                       account_number |-> SortStrings(Val(oldAccount).bankNumbers),
                       notes          |-> IF IsSome(oldRole) /\ IsSome(Val(oldRole).notes)
                                          THEN TrimNotes(Val(Val(oldRole).notes)) ELSE <<>>]
    IN  IF ~IsSome(sourceDest) THEN sent
        ELSE IF IsSome(oldAccount) /\ oldUpdate = update THEN sent
        ELSE IF IsSome(Val(sourceDest).fireflyId)
             THEN Append(sent, [op |-> "updateAccount",
                                id |-> Some(IdString(Val(Val(sourceDest).fireflyId))),
                                type |-> None, body |-> update])
        ELSE Append(sent, [op |-> "storeAccount", id |-> None,
                           type |-> Some(Val(sourceDest).type), body |-> update])

\* Firefly.exportAccounts: accounts are the accounts still to export
RECURSIVE exportAccounts(_, _, _)
exportAccounts(sent, accounts, actual) ==
    IF accounts = <<>> THEN sent
    ELSE LET account    == Head(accounts)
             oldAccount == AccountsGet(actual, account.id)
         IN  exportAccounts(
                 IF IsSome(account.destination) /\ Val(account.destination).type = "expense"
                 THEN updateAccount(updateAccount(sent, account, oldAccount, "source"),
                                    account, oldAccount, "destination")
                 ELSE updateAccount(sent, account, oldAccount, "source"),
                 Tail(accounts), actual)

\* Firefly.transformTransaction: [error, update]
transformTransaction(accounts, transaction) ==
    LET source      == IF IsSome(AccountsGet(accounts, transaction.sourceId))
                       THEN Val(AccountsGet(accounts, transaction.sourceId)).source
                       ELSE None
        destination == IF IsSome(AccountsGet(accounts, transaction.destinationId))
                       THEN Val(AccountsGet(accounts, transaction.destinationId)).destination
                       ELSE None
        type        == transactionMapping(Val(source).type, Val(destination).type)
    IN  IF ~IsSome(RoleFireflyId(source)) THEN [error |-> "SourceNotSet", update |-> <<>>]
        ELSE IF ~IsSome(RoleFireflyId(destination))
             THEN [error |-> "DestinationNotSet", update |-> <<>>]
        ELSE IF ~IsSome(type) THEN [error |-> "InvalidTransactionType", update |-> <<>>]
        ELSE [error  |-> "",
              update |->
                  [type                  |-> Val(type),
                   external_id           |-> SortStrings(transaction.akahuIds),
                   description           |-> transaction.description,
                   date                  |-> toISOString(transaction.date),
                   amount                |-> DecimalString(transaction.amount),
                   source_id             |-> IdString(Val(Val(source).fireflyId)),
                   destination_id        |-> IdString(Val(Val(destination).fireflyId)),
                   foreign_amount        |-> IF IsSome(transaction.foreignAmount)
                                             THEN Some(DecimalString(
                                                      Val(transaction.foreignAmount)))
                                             ELSE None,
                   foreign_currency_code |-> transaction.foreignCurrencyCode,
                   category_name         |-> transaction.categoryName]]

\* the second loop of export
RECURSIVE ExportTransactions(_, _, _)
ExportTransactions(e, transactions, actual) ==
    IF transactions = <<>> \/ e.error # "" THEN e
    ELSE LET transaction    == Head(transactions)
             t              == transformTransaction(e.accounts, transaction)
             oldTransaction == TransactionsGet(actual, transaction.id)
             otherUpdate    == transformTransaction(e.accounts, Val(oldTransaction))
             request        == IF IsSome(transaction.fireflyId)
                               THEN [op |-> "updateTransaction",
                                     id |-> Some(IdString(Val(transaction.fireflyId))),
                                     type |-> None, body |-> t.update]
                               ELSE [op |-> "storeTransaction", id |-> None, type |-> None,
                                     body |-> t.update]
         IN  ExportTransactions(
                 IF t.error # "" THEN [e EXCEPT !.error = t.error]
                 ELSE IF IsSome(oldTransaction) /\ otherUpdate.error # ""
                      THEN [e EXCEPT !.error = otherUpdate.error]
                 ELSE IF IsSome(oldTransaction) /\ t.update = otherUpdate.update THEN e
                 ELSE [e EXCEPT !.requests = Append(@, request)],
                 Tail(transactions), actual)

\* an export that writes the accounts after the transactions
exportAccountsLast(e, transactions, oldAccounts, oldTransactions) ==
    IF e.error # "" THEN e
    ELSE LET t == ExportTransactions(e, MapValues(transactions.transactions),
                                     oldTransactions)
         IN  [t EXCEPT !.requests = exportAccounts(@, MapValues(e.accounts.accounts),
                                                   oldAccounts)]

\* Firefly.export, e being the state after the first loop: [accounts, requests,
\* error]
export(e, transactions, oldAccounts, oldTransactions) ==
    IF e.error # "" THEN e
    ELSE ExportTransactions(
             [e EXCEPT !.requests = exportAccounts(@, MapValues(e.accounts.accounts),
                                                   oldAccounts)],
             MapValues(transactions.transactions), oldTransactions)

(***************************************************************************)
(* Ledger snapshots and feeds of the model.                                *)
(***************************************************************************)
AccountRow(id, type, name, notes, account_number) ==
    [id |-> id, type |-> type, name |-> name, notes |-> notes,
     account_number |-> account_number]

\* An account of a type the importer discards, the two accounts of the user,
\* and optionally an expense and a revenue account of one merchant and an
\* account for interest.  The notes of the cheque account are as updateNotes
\* writes them, or have the Akahu ID above the text, or no space before the
\* back quote.  Or the two accounts of the user and accounts that match
\* them or one another: the merchant spelt in capitals on its expense account,
\* an expense account with the name of the cheque account, an account that
\* has the name of one account of the user and the bank number of the other,
\* a second account called Savings, and the merchant with one account under
\* the name on its receipts and one under the name the feed gives it, which
\* may carry the Akahu ID of an account of the feed or of the merchant.
LedgerAccounts ==
    { << AccountRow(10, "Import account", "Import", None, None),
         AccountRow(11, "Asset account", "Cheque", Some(cheque), Some(<<"1-1-1-1">>)),
         AccountRow(12, "Asset account", "Savings",
                    Some(<<NotePart("akahu", "acc_2", " ", <<>>)>>), None) >>
      \o expense \o revenue \o interest :
        cheque \in { <<NotePart("text", "memo", "", <<>>), BlankLine,
                       NotePart("akahu", "acc_1", " ", <<>>)>>,
                     <<NotePart("akahu", "acc_1", " ", <<>>), BlankLine,
                       NotePart("text", "memo", "", <<>>)>>,
                     <<NotePart("akahu", "acc_1", "", <<>>)>> },
        expense \in { <<>>,
                      <<AccountRow(13, "Expense account", "Coffee", None, None)>>,
                      <<AccountRow(13, "Expense account", "Coffee",
                                   Some(<<NotePart("akahu", "merchant_1", " ", <<>>), BlankLine,
                                          NotePart("alt", "", " ", <<"Coffee Co">>)>>),
                                   None)>> },
        revenue \in { <<>>, <<AccountRow(14, "Revenue account", "Coffee ", None, None)>> },
        interest \in { <<>>, <<AccountRow(15, "Revenue account", "Interest", None, None)>> } }
    \cup
    { << AccountRow(11, "Asset account", "Cheque",
                    Some(<<NotePart("akahu", "acc_1", " ", <<>>)>>), Some(<<"1-1-1-1">>)),
         AccountRow(12, "Asset account", "Savings",
                    Some(<<NotePart("akahu", "acc_2", " ", <<>>)>>), None) >>
      \o more :
        more \in { <<AccountRow(13, "Expense account", "COFFEE", None, None),
                     AccountRow(14, "Revenue account", "Coffee ", None, None)>>,
                   <<AccountRow(13, "Expense account", "Cheque", None, None)>>,
                   <<AccountRow(16, "Default account", "Bank",
                                Some(<<NotePart("alt", "", " ", <<"Savings">>)>>),
                                Some(<<"1-1-1-1">>))>>,
                   <<AccountRow(16, "Cash account", "Savings", None, None)>>,
                   <<AccountRow(13, "Expense account", "Coffee", None, None),
                     AccountRow(17, "Expense account", "Coffee Co", None, None)>>,
                   <<AccountRow(13, "Expense account", "Coffee", None, None),
                     AccountRow(17, "Expense account", "Coffee Co",
                                Some(<<NotePart("akahu", "acc_9", " ", <<>>)>>), None)>>,
                   <<AccountRow(13, "Expense account", "Coffee", None, None),
                     AccountRow(17, "Expense account", "Coffee Co",
                                Some(<<NotePart("akahu", "merchant_1", " ", <<>>)>>),
                                None)>> } }

TransactionRow(id, description, amount, source_id, destination_id, external_id) ==
    [id |-> id, description |-> description, date |-> 0, amount |-> amount,
     source_id |-> source_id, destination_id |-> destination_id,
     foreign_amount |-> None, foreign_currency_code |-> None,
     external_id |-> external_id, category_name |-> None]

\* a payment to the merchant, with or without the id of its feed row, and a
\* transfer between the accounts of the user
LedgerTransactions ==
    { <<>>,
      <<TransactionRow(1, <<"C", "o", "f", "f", "e", "e">>, 200, 11, 13, None)>>,
      <<TransactionRow(1, <<"C", "o", "f", "f", "e", "e">>, 200, 11, 13,
                       Some(<<"trans_1", "note">>))>>,
      <<TransactionRow(2, <<"s", "a", "v", "e">>, 500, 11, 12, None)>>,
      <<TransactionRow(1, <<"C", "o", "f", "f", "e", "e">>, 200, 11, 13, None),
        TransactionRow(2, <<"s", "a", "v", "e">>, 500, 11, 12, None)>> }

FeedRowOf(id, account, amount, minute, description, merchant, meta, category) ==
    [_id |-> id, _account |-> account, amount |-> amount,
     date |-> [day |-> 0, minute |-> minute], description |-> description,
     merchant |-> merchant, meta |-> meta, category |-> category]

\* a card payment, the two sides of a transfer between the user's accounts, a
\* row of an account that is not set up, interest with a space after the
\* description and no meta, a refund of the merchant
AkahuRows ==
    { FeedRowOf("trans_1", "acc_1", -200, 61, <<"C", "o", "f", "f", "e", "e">>,
                Some([_id |-> "merchant_1", name |-> "Coffee Co"]), None, Some("food")),
      FeedRowOf("trans_2", "acc_1", -500, 540,
                <<"S", "a", "v", "i", "n", "g", "s", " ", "r", "e", "f">>, None,
                Some([other_account |-> None, reference |-> Some(<<"r", "e", "f">>),
                      conversion |-> Some([amount |-> -10, currency |-> "USD"])]),
                None),
      FeedRowOf("trans_3", "acc_2", 500, 541, <<"c", "h", "e", "q", "u", "e">>, None,
                Some([other_account |-> Some("1-1-1-1"), reference |-> None,
                      conversion |-> None]),
                None),
      FeedRowOf("trans_4", "acc_9", -100, 0, <<"C", "o", "f", "f", "e", "e">>, None, None,
                None),
      FeedRowOf("trans_5", "acc_2", 10, 0,
                <<"I", "n", "t", "e", "r", "e", "s", "t", " ">>, None, None, None),
      FeedRowOf("trans_6", "acc_2", 700, 600, <<"C", "o", "f", "f", "e", "e">>, None,
                None, None) }

\* akahu_transactions: at most MaxFeedRows rows, no row twice
Feeds ==
    UNION { { f \in [1..n -> AkahuRows] : \A i, j \in 1..n : i # j => f[i] # f[j] } :
            n \in 0..MaxFeedRows }

(***************************************************************************)
(* SpecPipeline: the stages of main on one Firefly object, for any ledger  *)
(* snapshot and any feed.  pc is the stage that has completed; stage is    *)
(* [name, error, feedImport, unmodified, failedWrite, dryRun, logged]: the *)
(* stage, the error it threw, what the feed import did, whether export     *)
(* found the modified stores to be the duplicates import() made, the       *)
(* request of export that the ledger API rejected, the DRY_RUN flag of the *)
(* export and the creates and updates export wrote to the log.             *)
(***************************************************************************)
InitPipeline ==
    /\ accountsCounter = 0
    /\ accStore = EmptyAccounts
    /\ accLast = [op |-> "new", outcome |-> "new", duplicate |-> FALSE, immutable |-> FALSE]
    /\ accCalls = 0
    /\ transactionsCounter = 0
    /\ txSelf = EmptyTransactions
    /\ txOther = EmptyTransactions
    /\ txLast = [op |-> "new", outcome |-> "new", arg |-> BaseTransaction, m |-> NoMerge]
    /\ txFused = {}
    /\ txCalls = 0
    /\ pc = "new"
    /\ ledger \in [accounts : LedgerAccounts, transactions : LedgerTransactions]
    /\ feed \in Feeds
    /\ actualAccounts = EmptyAccounts
    /\ actualTransactions = EmptyTransactions
    /\ modifiedAccounts = None
    /\ modifiedTransactions = None
    /\ akahuTransactions = EmptyTransactions
    /\ requests = <<>>
    /\ stage = [name |-> "new", error |-> "", feedImport |-> NoFeedImport,
                unmodified |-> FALSE, failedWrite |-> 0,
                 dryRun |-> FALSE, logged |-> <<>>]
    /\ ClonesOff

\* await firefly.import()
FireflyImport ==
    /\ pc = "new"
    /\ \E a \in {importAccounts([accounts |-> EmptyAccounts, counter |-> accountsCounter,
                                  error |-> ""], ledger.accounts)} :
       \E t \in {importLedgerTransactions(
                     [store |-> EmptyTransactions, counter |-> transactionsCounter,
                      error |-> a.error], a.accounts, ledger.transactions)} :
           /\ actualAccounts' = a.accounts
           /\ actualTransactions' = t.store
           /\ accountsCounter' = a.counter
           /\ transactionsCounter' = t.counter
           /\ IF t.error = ""
              THEN /\ modifiedAccounts' = Some(AccountsDuplicate(a.accounts))
                   /\ modifiedTransactions' = Some(TransactionsDuplicate(t.store))
              ELSE UNCHANGED <<modifiedAccounts, modifiedTransactions>>
           /\ pc' = IF t.error = "" THEN "imported" ELSE "failed"
           /\ stage' = [name |-> "import", error |-> t.error, feedImport |-> NoFeedImport,
                        unmodified |-> FALSE, failedWrite |-> 0,
                 dryRun |-> FALSE, logged |-> <<>>]
    /\ UNCHANGED <<ledger, feed, akahuTransactions, requests>>

\* firefly.accounts before import() has set modifiedAccounts: main does not await
\* import(), so its first read of the getter throws
AccountsBeforeImport ==
    /\ pc = "new"
    /\ ~IsSome(modifiedAccounts)
    /\ pc' = "failed"
    /\ stage' = [name |-> "accounts", error |-> "Accounts not imported",
                 feedImport |-> NoFeedImport, unmodified |-> FALSE, failedWrite |-> 0,
                 dryRun |-> FALSE, logged |-> <<>>]
    /\ UNCHANGED <<accountsCounter, transactionsCounter, ledger, feed, actualAccounts,
                   actualTransactions, modifiedAccounts, modifiedTransactions,
                   akahuTransactions, requests>>

\* await akahuImport.importTransactions(firefly.accounts)
AkahuImport ==
    /\ pc = "imported"
    /\ IsSome(modifiedAccounts)
    /\ \E r \in {importTransactions(
                      FeedRows([accounts |-> Val(modifiedAccounts),
                                positive |-> EmptyTransactions,
                                negative |-> EmptyTransactions,
                                normalTransactions |-> <<>>, counter |-> transactionsCounter,
                                error |-> ""], feed))} :
           /\ modifiedAccounts' = Some(r.accounts)
           /\ akahuTransactions' = r.store
           /\ transactionsCounter' = r.counter
           /\ pc' = IF r.error = "" THEN "fed" ELSE "failed"
           /\ stage' = [name |-> "feed", error |-> r.error, feedImport |-> r.pools,
                        unmodified |-> FALSE, failedWrite |-> 0,
                 dryRun |-> FALSE, logged |-> <<>>]
    /\ UNCHANGED <<accountsCounter, ledger, feed, actualAccounts, actualTransactions,
                   modifiedTransactions, requests>>

\* firefly.transactions.merge(akahuTransactions, ...)
MainMerge ==
    /\ pc = "fed"
    /\ IsSome(modifiedTransactions)
    /\ \E m \in {TransactionsMerge(Val(modifiedTransactions), akahuTransactions,
                                    "akahuIdsMatch", "takeB", transactionsCounter)} :
           /\ modifiedTransactions' = Some(m.store)
           /\ transactionsCounter' = m.counter
    /\ pc' = "merged"
    /\ stage' = [name |-> "merge", error |-> "", feedImport |-> NoFeedImport,
                 unmodified |-> FALSE, failedWrite |-> 0,
                 dryRun |-> FALSE, logged |-> <<>>]
    /\ UNCHANGED <<accountsCounter, ledger, feed, actualAccounts, actualTransactions,
                   modifiedAccounts, akahuTransactions, requests>>

\* an export that makes its calls whatever the flag
RemoteCallsAlways(logged, dryRun) == logged

\* if (!dryRun) await factory.updateAccount(...) / storeAccount / updateTransaction /
\* storeTransaction: the calls made for the creates and updates export has logged
RemoteCalls(logged, dryRun) == IF dryRun THEN <<>> ELSE logged

\* const dryRun = process.env['DRY_RUN'] === 'true'
\* await firefly.export(basePath, apiKey, dryRun).  The ledger API may reject a
\* request (failed is its position in requests, 0 when every request is
\* accepted): the catch around the request logs it and changes nothing
Export ==
    /\ pc = "merged"
    /\ IsSome(modifiedAccounts) /\ IsSome(modifiedTransactions)
    /\ \E e \in {export(Prepass([accounts |-> Val(modifiedAccounts), requests |-> <<>>,
                                  error |-> ""],
                                 MapValues(Val(modifiedTransactions).transactions)),
                         Val(modifiedTransactions), actualAccounts, actualTransactions)} :
       \E dryRun \in BOOLEAN :
       \E failed \in 0..Len(RemoteCalls(e.requests, dryRun)) :
           /\ modifiedAccounts' = Some(e.accounts)
           /\ requests' = RemoteCalls(e.requests, dryRun)
           /\ pc' = IF e.error = "" THEN "exported" ELSE "failed"
           /\ stage' = [name |-> "export", error |-> e.error, feedImport |-> NoFeedImport,
                        unmodified |->
                            /\ modifiedAccounts = Some(AccountsDuplicate(actualAccounts))
                            /\ modifiedTransactions
                                  = Some(TransactionsDuplicate(actualTransactions)),
                        failedWrite |-> failed, dryRun |-> dryRun, logged |-> e.requests]
    /\ UNCHANGED <<accountsCounter, transactionsCounter, ledger, feed, actualAccounts,
                   actualTransactions, modifiedTransactions, akahuTransactions>>

NextPipeline ==
    \/ FireflyImport
    \/ AccountsBeforeImport
    \/ AkahuImport
    \/ MainMerge
    \/ Export

SpecPipeline ==
    InitPipeline /\ [][NextPipeline /\ UNCHANGED <<accStore, accLast, accCalls, txSelf,
                                                   txOther, txLast, txFused, txCalls,
                                                   cloneVars>>]_vars

(***************************************************************************)
(* Properties of the pipeline, checked under SpecPipeline.                 *)
(***************************************************************************)
\* every transaction of the store names accounts of the account store
ResolvesIn(transactions, accounts) ==
    \A t \in StoredTransactions(transactions) :
        /\ t.sourceId \in StoredIds(accounts)
        /\ t.destinationId \in StoredIds(accounts)

\* C6: at every point of the pipeline (after ledger import, feed import, merge
\* and the export pre-pass), the sourceId and the destinationId of every
\* transaction, of the working transaction store and of the store the feed
\* import returned, are ids of accounts of the working account store.
C6_TransactionsResolve ==
    IsSome(modifiedAccounts) /\ IsSome(modifiedTransactions) =>
        /\ ResolvesIn(Val(modifiedTransactions), Val(modifiedAccounts))
        /\ ResolvesIn(akahuTransactions, Val(modifiedAccounts))
        /\ ~(stage.name = "export" /\ stage.error = "InvalidAccountId")

\* the export pre-pass has run on a ledger transaction and on a feed transaction
\* and has given the counterparty of the latter a role
C6_Witness ==
    /\ stage.name = "export"
    /\ \E t \in StoredTransactions(Val(modifiedTransactions)) : IsSome(t.fireflyId)
    /\ \E t \in StoredTransactions(Val(modifiedTransactions)) :
          /\ ~IsSome(t.fireflyId)
          /\ \E a \in StoredAccounts(Val(modifiedAccounts)) :
                /\ a.id = t.destinationId
                /\ IsSome(a.destination)
                /\ ~IsSome(Val(a.destination).fireflyId)

PoolIds == IdsOf(stage.feedImport.positive) \cup IdsOf(stage.feedImport.negative)
Paired(id) ==
    \E i \in 1..Len(stage.feedImport.fusions) :
        \/ stage.feedImport.fusions[i].a.id = id
        \/ stage.feedImport.fusions[i].b.id = id

\* the rows of the feed a transaction was built from
RowsOf(transaction) == {i \in 1..Len(feed) : feed[i]._id \in transaction.akahuIds}

\* fusion f made transaction t out of one credit-side and one debit-side row
FusionOf(f, t) ==
    /\ f.a.id = t.id
    /\ \E p \in 1..Len(stage.feedImport.positive) : stage.feedImport.positive[p] = f.a
    /\ \E n \in 1..Len(stage.feedImport.negative) : stage.feedImport.negative[n] = f.b
    /\ \E c, d \in 1..Len(feed) :
          /\ RowsOf(f.a) = {c} /\ feed[c].amount >= 0
          /\ RowsOf(f.b) = {d} /\ feed[d].amount < 0
          /\ t.akahuIds = {feed[c]._id, feed[d]._id}

\* C9: the feed import aborts with UnmatchedTransfer whenever, after the positive
\* pool is fused with the negative pool, a transaction of either pool is left
\* unpaired; when it returns normally, every internal transfer of the returned
\* store is the fusion of exactly one debit-side and one credit-side feed row
\* and carries the akahuIds of both.
C9_TransfersPaired ==
    stage.name = "feed" =>
        /\ stage.feedImport.merged /\ (\E id \in PoolIds : ~Paired(id)) =>
              stage.error = "UnmatchedTransfer" /\ pc = "failed"
        /\ stage.error = "" =>
              \A t \in StoredTransactions(akahuTransactions) :
                  IsInternalTransfer(Val(modifiedAccounts), t) =>
                      Cardinality({i \in 1..Len(stage.feedImport.fusions) :
                                      FusionOf(stage.feedImport.fusions[i], t)}) = 1

\* the feed import has returned a store with a fused transfer and a payment
C9_Witness ==
    /\ stage.name = "feed"
    /\ stage.error = ""
    /\ Len(stage.feedImport.fusions) = 1
    /\ Cardinality(StoredTransactions(akahuTransactions)) = 2
    /\ \E t \in StoredTransactions(akahuTransactions) :
          /\ IsInternalTransfer(Val(modifiedAccounts), t)
          /\ t.akahuIds = {"trans_2", "trans_3"}

\* C10: when the modified account and transaction stores are unmodified
\* duplicates of the originals, export issues no create and no update request
\* for any account or transaction, whatever the notes, alternate names and
\* akahuIds of the accounts of the ledger are.
C10_UnmodifiedExportsNothing ==
    stage.name = "export" /\ stage.unmodified => requests = <<>>

\* a transaction the second loop of export has to write: its payload can be built
\* and it is new or its payload differs from the payload of the original
NeedsWrite(accounts, t) ==
    LET old == TransactionsGet(actualTransactions, t.id)
    IN  /\ transformTransaction(accounts, t).error = ""
        /\ \/ ~IsSome(old)
           \/ /\ transformTransaction(accounts, Val(old)).error = ""
              /\ transformTransaction(accounts, Val(old)).update
                    # transformTransaction(accounts, t).update

\* export has sent the write of the transaction
WriteAttempted(accounts, t) ==
    \E i \in 1..Len(requests) :
        /\ requests[i].op \in {"updateTransaction", "storeTransaction"}
        /\ requests[i].body = transformTransaction(accounts, t).update

\* C11: when the ledger API rejects a write of export (an account or a
\* transaction), export still runs its loops to the last entity: every modified
\* transaction whose payload differs from the original has its write attempted.
C11_ExportRunsToLast ==
    stage.name = "export" /\ stage.error # "InvalidAccountId" /\ stage.failedWrite > 0 =>
        \A t \in StoredTransactions(Val(modifiedTransactions)) :
            NeedsWrite(Val(modifiedAccounts), t)
                => WriteAttempted(Val(modifiedAccounts), t)

\* C12: main runs the stages in order: feed import, merge and export act only
\* on stores that a completed ledger import has set, each after the stage before
\* it, and the getter of the working account store is never read while the
\* ledger import is still pending.
C12_StrictOrder ==
    /\ stage.name \in {"feed", "merge", "export"}
          => IsSome(modifiedAccounts) /\ IsSome(modifiedTransactions)
    /\ pc = "merged" => stage.name = "merge"
    /\ pc = "exported" => stage.name = "export"
    /\ ~(stage.name = "accounts" /\ ~IsSome(modifiedAccounts))

(***************************************************************************)
(* SpecClones: a caller of an Accounts store s and of d = s.duplicate().   *)
(* The caller takes an account from either store through an accessor,      *)
(* changes it and saves it, or creates an account.  Accounts.clone copies  *)
(* the account object, its bankNumbers and its alternateNames, and copies  *)
(* source and destination by reference: a role record carries the identity *)
(* ref of its object, and every account that holds a role record with the  *)
(* same ref holds the same object.                                         *)
(***************************************************************************)
\* the role records of an input account as objects of their own
WithRefs(account, id) ==
    [account EXCEPT
        !.source = IF IsSome(@) THEN Some([fireflyId |-> Val(@).fireflyId,
                                           type |-> Val(@).type, notes |-> Val(@).notes,
                                           ref |-> 2 * id - 1])
                   ELSE None,
        !.destination = IF IsSome(@) THEN Some([fireflyId |-> Val(@).fireflyId,
                                                type |-> Val(@).type,
                                                notes |-> Val(@).notes, ref |-> 2 * id])
                        ELSE None]

\* the references to role records that the account returned by an accessor holds
RoleRefs(account) ==
    {Val(r).ref : r \in {x \in {account.source, account.destination} :
                            IsSome(x) /\ "ref" \in DOMAIN Val(x)}}

\* role.notes = notes on the role record ref, as seen through one account and
\* through every account of a store
SetRoleNotes(account, ref, notes) ==
    LET set(role) == IF IsSome(role) /\ "ref" \in DOMAIN Val(role) /\ Val(role).ref = ref
                     THEN Some([Val(role) EXCEPT !.notes = notes]) ELSE role
    IN  [account EXCEPT !.source = set(@), !.destination = set(@)]
SetRoleNotesIn(s, ref, notes) ==
    [s EXCEPT !.accounts = [i \in 1..Len(s.accounts) |->
                               [k |-> s.accounts[i].k,
                                v |-> SetRoleNotes(s.accounts[i].v, ref, notes)]]]

InitClones ==
    /\ accStore = EmptyAccounts
    /\ accLast = [op |-> "new", outcome |-> "new", duplicate |-> FALSE, immutable |-> FALSE]
    /\ accCalls = 0
    /\ transactionsCounter = 0
    /\ txSelf = EmptyTransactions
    /\ txOther = EmptyTransactions
    /\ txLast = [op |-> "new", outcome |-> "new", arg |-> BaseTransaction, m |-> NoMerge]
    /\ txFused = {}
    /\ txCalls = 0
    /\ PipelineOff
    /\ accountsCounter = 2
    /\ \E a \in AccountInputs, b \in {x \in AccountInputs : x.name = "Bank"} :
          clOrig = AccountsCreate(AccountsCreate(EmptyAccounts, WithRefs(a, 1), 1),
                                  WithRefs(b, 2), 2)
    /\ clDup = None
    /\ clHeld = None
    /\ clLast = [op |-> "new", side |-> "orig", calls |-> 0]

\* the store of one side
Side(side) == IF side = "orig" THEN clOrig ELSE Val(clDup)

\* d = s.duplicate()
ClonesDuplicate ==
    /\ clLast.calls < MaxCalls
    /\ ~IsSome(clDup)
    /\ ~IsSome(clHeld)
    /\ clDup' = Some(AccountsDuplicate(clOrig))
    /\ clLast' = [op |-> "duplicate", side |-> "orig", calls |-> clLast.calls + 1]
    /\ UNCHANGED <<accountsCounter, clOrig, clHeld>>

\* get(id), or another accessor that finds the account id: a clone of it
ClonesGet(side, id) ==
    /\ clLast.calls < MaxCalls
    /\ side = "dup" => IsSome(clDup)
    /\ ~IsSome(clHeld)
    /\ IsSome(AccountsGet(Side(side), id))
    /\ clHeld' = Some([side |-> side, account |-> Val(AccountsGet(Side(side), id))])
    /\ clLast' = [op |-> "get", side |-> side, calls |-> clLast.calls + 1]
    /\ UNCHANGED <<accountsCounter, clOrig, clDup>>

\* the caller sets a field of the account it holds, adds to its bankNumbers or
\* alternateNames, or replaces a role record
ClonesEdit(e) ==
    /\ clLast.calls < MaxCalls
    /\ IsSome(clHeld)
    /\ e.field # "none"
    /\ clHeld' = Some([Val(clHeld) EXCEPT !.account = ApplyEdit(@, e)])
    /\ clLast' = [op |-> "edit", side |-> Val(clHeld).side, calls |-> clLast.calls + 1]
    /\ UNCHANGED <<accountsCounter, clOrig, clDup>>

\* the caller sets account.source.notes or account.destination.notes of the
\* account it holds: an assignment to the role record object
ClonesEditRole(ref, notes) ==
    /\ clLast.calls < MaxCalls
    /\ IsSome(clHeld)
    /\ ref \in RoleRefs(Val(clHeld).account)
    /\ clHeld' = Some([Val(clHeld) EXCEPT !.account = SetRoleNotes(@, ref, notes)])
    /\ clOrig' = SetRoleNotesIn(clOrig, ref, notes)
    /\ clDup' = IF IsSome(clDup) THEN Some(SetRoleNotesIn(Val(clDup), ref, notes)) ELSE None
    /\ clLast' = [op |-> "edit", side |-> Val(clHeld).side, calls |-> clLast.calls + 1]
    /\ UNCHANGED accountsCounter

\* save(account) of the account the caller holds, on the store it came from
ClonesSave ==
    /\ clLast.calls < MaxCalls
    /\ IsSome(clHeld)
    /\ AccountsSaveOutcome(Side(Val(clHeld).side), Val(clHeld).account) = "saved"
    /\ IF Val(clHeld).side = "orig"
       THEN /\ clOrig' = AccountsSave(clOrig, Val(clHeld).account)
            /\ UNCHANGED clDup
       ELSE /\ clDup' = Some(AccountsSave(Val(clDup), Val(clHeld).account))
            /\ UNCHANGED clOrig
    /\ clHeld' = None
    /\ clLast' = [op |-> "save", side |-> Val(clHeld).side, calls |-> clLast.calls + 1]
    /\ UNCHANGED accountsCounter

\* create(inputAccount) on one of the stores
ClonesCreate(side, inputAccount) ==
    /\ clLast.calls < MaxCalls
    /\ IsSome(clDup)
    /\ ~IsSome(clHeld)
    /\ accountsCounter < MaxAccounts + 1
    /\ accountsCounter' = accountsCounter + 1
    /\ IF side = "orig"
       THEN /\ clOrig' = AccountsCreate(clOrig, WithRefs(inputAccount, accountsCounter + 1),
                                        accountsCounter + 1)
            /\ UNCHANGED clDup
       ELSE /\ clDup' = Some(AccountsCreate(Val(clDup),
                                 WithRefs(inputAccount, accountsCounter + 1),
                                 accountsCounter + 1))
            /\ UNCHANGED clOrig
    /\ clLast' = [op |-> "create", side |-> side, calls |-> clLast.calls + 1]
    /\ UNCHANGED clHeld

NextClones ==
    \/ ClonesDuplicate
    \/ \E side \in {"orig", "dup"}, id \in 1..(MaxAccounts + 1) : ClonesGet(side, id)
    \/ \E e \in AccountEdits : ClonesEdit(e)
    \/ \E ref \in 1..(2 * (MaxAccounts + 1)), notes \in {None, Some(<<"memo">>)} :
          ClonesEditRole(ref, notes)
    \/ ClonesSave
    \/ \E side \in {"orig", "dup"}, a \in {x \in AccountInputs : x.name = "Bank"} :
          ClonesCreate(side, a)

SpecClones ==
    InitClones /\ [][NextClones /\ UNCHANGED <<accStore, accLast, accCalls, txVars,
                                               pipeVars>>]_vars

LookupId(found) == IF IsSome(found) THEN Some(Val(found).id) ELSE None

\* every lookup by a secondary key finds an account of the same id in both stores
SameLookups(s, d) ==
    /\ \A f \in (DOMAIN s.fireflyIdIndex) \cup (DOMAIN d.fireflyIdIndex) :
          LookupId(AccountsGetByFireflyId(s, f)) = LookupId(AccountsGetByFireflyId(d, f))
    /\ \A a \in (DOMAIN s.akahuIdIndex) \cup (DOMAIN d.akahuIdIndex) :
          LookupId(AccountsGetByAkahuId(s, a)) = LookupId(AccountsGetByAkahuId(d, a))
    /\ \A b \in (DOMAIN s.bankNumberIndex) \cup (DOMAIN d.bankNumberIndex) :
          LookupId(AccountsGetByBankNumber(s, b)) = LookupId(AccountsGetByBankNumber(d, b))
    /\ \A n \in MapKeys(s.nameIndex) \cup MapKeys(d.nameIndex) :
          LookupId(AccountsGetByNormName(s, n)) = LookupId(AccountsGetByNormName(d, n))

\* C14: right after duplicate(), whatever create and save calls built the
\* store, iterating the duplicate yields the accounts of the original, equal
\* field by field and in the same order, and every lookup by a secondary key
\* returns an account of the same id from both.
C14_DuplicateEquivalent ==
    /\ MapValues(AccountsDuplicate(accStore).accounts) = MapValues(accStore.accounts)
    /\ SameLookups(accStore, AccountsDuplicate(accStore))

\* C15: an account returned by an accessor is a deep clone: whatever the caller
\* changes on it (a field, its bankNumbers, its alternateNames, a field of its
\* source or destination role record), the accounts the store returns stay as
\* they were until the caller saves.  Checked under SpecClones.
C15_AccessorsReturnClones ==
    [][clLast'.op = "edit" /\ clLast'.calls = clLast.calls + 1
          => clOrig' = clOrig /\ clDup' = clDup]_vars

(***************************************************************************)
(* Properties of the failures of create and save, checked under            *)
(* SpecAccounts.                                                           *)
(***************************************************************************)
\* C16: Accounts.create of an account one of whose keys (akahuId, bank number,
\* normalized name, Firefly ID of a role) is already indexed fails with a
\* DuplicateKey error and leaves the account map and the four indices unchanged.
C16_CreateRejectsDuplicates ==
    [][accLast'.op = "create" /\ accCalls' = accCalls + 1 /\ accLast'.duplicate
          => accLast'.outcome = "throw: DuplicateKey" /\ accStore' = accStore]_vars

AccountThrows == {"throw: source Firefly ID", "throw: destination Firefly ID",
                  "throw: Akahu ID"}

\* C17: Accounts.save throws (ImmutableField) whenever the stored account has its
\* akahuId, the Firefly ID of its source or the Firefly ID of its destination set
\* and the saved account carries another value for it; a save that throws leaves
\* the account map and the four indices as they were.
C17_SaveImmutable ==
    [][accLast'.op = "save" /\ accCalls' = accCalls + 1
          => /\ accLast'.immutable => accLast'.outcome \in AccountThrows
             /\ accLast'.outcome \in AccountThrows => accStore' = accStore]_vars

\* a save of the model has thrown for each of the three identifiers
C17_Witness ==
    /\ accLast.op = "save"
    /\ accLast.outcome = "throw: Akahu ID"
    /\ \E a \in SaveInputs(accStore) :
          AccountsSaveOutcome(accStore, a) = "throw: source Firefly ID"
    /\ \E a \in SaveInputs(accStore) :
          AccountsSaveOutcome(accStore, a) = "throw: destination Firefly ID"

\* C18: save of an account whose id is not in the store fails with an UnknownId
\* error and leaves the store unchanged.
C18_SaveUnknownIdFails ==
    \A a \in SaveInputs(accStore) :
        ~MapHas(accStore.accounts, a.id)
            => /\ AccountsSaveOutcome(accStore, a) = "throw: UnknownId"
               /\ AccountsSave(accStore, a) = accStore

(***************************************************************************)
(* The resolution of one account row of the ledger.                        *)
(***************************************************************************)
\* the state of importAccounts when it reaches row k of the ledger
BeforeRow(k) ==
    importAccounts([accounts |-> EmptyAccounts, counter |-> 0, error |-> ""],
                   SubSeq(ledger.accounts, 1, k - 1))

\* row k of the ledger is of a mapped type and importAccounts reaches it
RowReached(k) ==
    /\ IsSome(TypeMapping(ledger.accounts[k].type))
    /\ BeforeRow(k).error = ""

\* the account importAccounts builds from row k, and its matches
Candidate(k) == RowAccount(ledger.accounts[k], Val(TypeMapping(ledger.accounts[k].type)))
RowMatches(k) == findMatches(BeforeRow(k).accounts, Candidate(k))

\* the account of that id in the store carries the roles of the candidate
MergedInto(s, id, candidate) ==
    /\ IsSome(AccountsGet(s, id))
    /\ IsSome(candidate.source) => Val(AccountsGet(s, id)).source = candidate.source
    /\ IsSome(candidate.destination)
           => Val(AccountsGet(s, id)).destination = candidate.destination

\* C19: every account row of a mapped type that the import reaches is resolved
\* by the number of its matches: with none the account is created, with one
\* and an expense or revenue candidate the candidate is merged into the match
\* and no account is added, and in every other case the import fails with
\* AccountConflict and the store is as it was before the row.
C19_RowResolution ==
    stage.name = "import" =>
        \A k \in 1..Len(ledger.accounts) :
            RowReached(k) =>
                LET before == BeforeRow(k)
                    after  == importAccounts(before, <<ledger.accounts[k]>>)
                    type   == Val(TypeMapping(ledger.accounts[k].type))
                IN  IF Len(RowMatches(k)) = 0
                    THEN /\ after.error = ""
                         /\ Len(after.accounts.accounts) = Len(before.accounts.accounts) + 1
                         /\ MergedInto(after.accounts, before.counter + 1, Candidate(k))
                    ELSE IF Len(RowMatches(k)) = 1 /\ type \in {"expense", "revenue"}
                    THEN /\ after.error = ""
                         /\ Len(after.accounts.accounts) = Len(before.accounts.accounts)
                         /\ MergedInto(after.accounts, RowMatches(k)[1].id, Candidate(k))
                    ELSE /\ after.error = "AccountConflict"
                         /\ after.accounts = before.accounts

\* the first and the third case of the resolution alone
C19_CreateAndConflict ==
    stage.name = "import" =>
        \A k \in 1..Len(ledger.accounts) :
            RowReached(k) =>
                LET before == BeforeRow(k)
                    after  == importAccounts(before, <<ledger.accounts[k]>>)
                    type   == Val(TypeMapping(ledger.accounts[k].type))
                IN  IF Len(RowMatches(k)) = 0
                    THEN /\ after.error = ""
                         /\ Len(after.accounts.accounts) = Len(before.accounts.accounts) + 1
                         /\ MergedInto(after.accounts, before.counter + 1, Candidate(k))
                    ELSE IF Len(RowMatches(k)) = 1 /\ type \in {"expense", "revenue"}
                    THEN after.error = ""
                             => MergedInto(after.accounts, RowMatches(k)[1].id, Candidate(k))
                    ELSE /\ after.error = "AccountConflict"
                         /\ after.accounts = before.accounts

(***************************************************************************)
(* The accounts of the working store after the feed import and the export. *)
(***************************************************************************)
\* the normalized names of an account
NormNames(account) == {account.alternateNames[i].k : i \in 1..Len(account.alternateNames)}

\* no normalized name belongs to two accounts of the store
UniqueNormNames(s) ==
    \A i, j \in 1..Len(s.accounts) :
        i # j => NormNames(s.accounts[i].v) \cap NormNames(s.accounts[j].v) = {}

\* the ids of the accounts of the store, in order
AccountIds(s) == [i \in 1..Len(s.accounts) |-> s.accounts[i].k]

\* every account a transaction of the working store names has the role the
\* transaction gives it
RolesAttached ==
    \A i \in 1..Len(Val(modifiedTransactions).transactions) :
        LET t == Val(modifiedTransactions).transactions[i].v
        IN  /\ IsSome(AccountsGet(Val(modifiedAccounts), t.sourceId))
            /\ IsSome(Val(AccountsGet(Val(modifiedAccounts), t.sourceId)).source)
            /\ IsSome(AccountsGet(Val(modifiedAccounts), t.destinationId))
            /\ IsSome(Val(AccountsGet(Val(modifiedAccounts), t.destinationId)).destination)

\* C20: the feed import and the first loop of export add no account to the
\* working store and remove none, the accounts that lacked the role a
\* transaction gives them have it after the first loop of export, under the
\* id they had, and no normalized name belongs to two accounts of the working
\* store.
C20_SameAccounts ==
    IsSome(modifiedAccounts) =>
        /\ AccountIds(Val(modifiedAccounts)) = AccountIds(actualAccounts)
        /\ stage.name = "export" /\ stage.error # "InvalidAccountId" => RolesAttached
        /\ UniqueNormNames(actualAccounts) => UniqueNormNames(Val(modifiedAccounts))

\* the first two parts of C20 alone
C20_CountAndRoles ==
    IsSome(modifiedAccounts) =>
        /\ AccountIds(Val(modifiedAccounts)) = AccountIds(actualAccounts)
        /\ stage.name = "export" /\ stage.error # "InvalidAccountId" => RolesAttached

\* a feed row gave the destination role to an account that lacked it
C20_RolePromoted ==
    /\ stage.name = "export"
    /\ \E i \in 1..Len(actualAccounts.accounts) :
           /\ ~IsSome(actualAccounts.accounts[i].v.destination)
           /\ IsSome(Val(AccountsGet(Val(modifiedAccounts),
                                     actualAccounts.accounts[i].k)).destination)

(***************************************************************************)
(* The account of a feed row.                                              *)
(***************************************************************************)
\* the types of the roles of an account
RoleTypes(account) ==
    {Val(r).type : r \in {x \in {account.source, account.destination} : IsSome(x)}}

\* the feed-account-id of the row resolves to no account of the ledger import
NotSetUp(row) == ~IsSome(AccountsGetByAkahuId(actualAccounts, row._account))

\* ... or to an account that is not an asset or a liability
Unconfigured(row) ==
    \/ NotSetUp(row)
    \/ RoleTypes(Val(AccountsGetByAkahuId(actualAccounts, row._account)))
           \cap {"asset", "liability"} = {}

\* a transaction of the feed import carries the id of the row
Emitted(row) ==
    \E i \in 1..Len(akahuTransactions.transactions) :
        row._id \in akahuTransactions.transactions[i].v.akahuIds

\* C21: the feed import fails when the feed has a row whose feed-account-id
\* resolves to no account or to an account that is neither an asset nor a
\* liability, with UnconfiguredAccount when that row is the first of the feed,
\* and no transaction carries the id of such a row.
C21_UnconfiguredAccountFails ==
    stage.name = "feed" =>
        \A i \in 1..Len(feed) :
            Unconfigured(feed[i])
                => /\ stage.error # ""
                   /\ i = 1 => stage.error = "UnconfiguredAccount"
                   /\ ~Emitted(feed[i])

\* the same for the rows whose feed-account-id resolves to no account
C21_NotSetUpFails ==
    stage.name = "feed" =>
        \A i \in 1..Len(feed) :
            NotSetUp(feed[i])
                => /\ stage.error # ""
                   /\ i = 1 => stage.error = "UnconfiguredAccount"
                   /\ ~Emitted(feed[i])

SecondImportAccounts ==
    importAccounts([accounts |-> EmptyAccounts, counter |-> accountsCounter, error |-> ""],
                   ledger.accounts)
SecondImportTransactions ==
    importLedgerTransactions([store |-> EmptyTransactions, counter |-> transactionsCounter,
                              error |-> SecondImportAccounts.error],
                             SecondImportAccounts.accounts, ledger.transactions)

\* C23: a second import of the same ledger snapshot into fresh stores, in the
\* process that made the first, gives stores equal to those of the first
\* import: the same ids, the same accounts and transactions in the same
\* order, the same indices.
C23_ImportTwiceEqual ==
    stage.name = "import" /\ stage.error = "" =>
        /\ SecondImportAccounts.accounts = actualAccounts
        /\ SecondImportTransactions.store = actualTransactions

\* the accounts and transactions of the second import are those of the first
\* with every id moved up by the number of ids the first import assigned
C23_EqualUpToIds ==
    stage.name = "import" /\ stage.error = "" =>
        /\ SecondImportAccounts.error = "" /\ SecondImportTransactions.error = ""
        /\ MapValues(SecondImportAccounts.accounts.accounts)
             = [i \in 1..Len(actualAccounts.accounts) |->
                   [actualAccounts.accounts[i].v EXCEPT !.id = @ + accountsCounter]]
        /\ MapValues(SecondImportTransactions.store.transactions)
             = [i \in 1..Len(actualTransactions.transactions) |->
                   [actualTransactions.transactions[i].v EXCEPT
                       !.id = @ + transactionsCounter,
                       !.sourceId = @ + accountsCounter,
                       !.destinationId = @ + accountsCounter]]

(***************************************************************************)
(* The write payloads of export.                                           *)
(***************************************************************************)
\* the errors Firefly.transformTransaction throws
TransformErrors == {"SourceNotSet", "DestinationNotSet", "InvalidTransactionType"}

\* C24: once the first loop of export has run, export builds the payload of
\* every transaction of the working store: it never stops with an error of
\* transformTransaction.
C24_PayloadsBuilt ==
    stage.name = "export" => stage.error \notin TransformErrors

(***************************************************************************)
(* The indices of a Transactions store.                                    *)
(***************************************************************************)
\* every key of the two indices maps to a stored transaction that carries it
TransactionKeysOwned(s) ==
    /\ \A f \in DOMAIN s.fireflyIdIndex :
          /\ IsSome(TransactionsGetByFireflyId(s, f))
          /\ Val(TransactionsGetByFireflyId(s, f)).fireflyId = Some(f)
    /\ \A k \in DOMAIN s.akahuIdIndex :
          /\ IsSome(TransactionsGetByAkahuId(s, k))
          /\ k \in Val(TransactionsGetByAkahuId(s, k)).akahuIds

\* every stored transaction is returned by the lookup of each of its keys
TransactionKeysIndexed(s) ==
    \A t \in StoredTransactions(s) :
        /\ IsSome(t.fireflyId) => TransactionsGetByFireflyId(s, Val(t.fireflyId)) = Some(t)
        /\ \A k \in t.akahuIds : TransactionsGetByAkahuId(s, k) = Some(t)

\* C25: after any sequence of create, save and merge on a Transactions store,
\* a lookup by fireflyId or akahuId returns a stored transaction that carries
\* the key, and every stored transaction is returned by the lookup of its
\* fireflyId and of each of its akahuIds.
C25_TransactionIndexInvariant ==
    TransactionKeysOwned(txSelf) /\ TransactionKeysIndexed(txSelf)

\* the same on a store that has no key on two transactions
C25_IndexInvariantUnlessShared ==
    NoSharedTransactionKeys(txSelf) =>
        TransactionKeysOwned(txSelf) /\ TransactionKeysIndexed(txSelf)

(***************************************************************************)
(* The ids of the transactions of two stores of one process.               *)
(***************************************************************************)
\* every transaction is stored under its id, once, and the counter has passed it
UniqueIds(s) ==
    /\ \A i, j \in 1..Len(s.transactions) :
          i # j => s.transactions[i].k # s.transactions[j].k
    /\ \A i \in 1..Len(s.transactions) :
          /\ s.transactions[i].v.id = s.transactions[i].k
          /\ s.transactions[i].k \in 1..transactionsCounter

\* the ids of the transactions of other that the merge of txLast created in
\* this store
CreatedIds(m) == IdsOf(m.otherBefore) \ {m.fusions[i].b.id : i \in 1..Len(m.fusions)}

\* C26: the ids of a store are unique and no id is in both stores; create
\* gives the new transaction the next value of the counter; and a merge adds
\* the transactions of other it did not fuse under the ids they had in other,
\* none of which is an id of this store, and leaves every transaction of this
\* store that it did not fuse as it was.
C26_IdsUnique ==
    /\ [](/\ UniqueIds(txSelf) /\ UniqueIds(txOther)
          /\ StoredTransactionIds(txSelf) \cap StoredTransactionIds(txOther) = {}
          /\ txLast.op = "merge" =>
                 /\ CreatedIds(txLast.m) \cap IdsOf(txLast.m.selfBefore) = {}
                 /\ StoredTransactionIds(txSelf)
                       = IdsOf(txLast.m.selfBefore) \cup CreatedIds(txLast.m)
                 /\ \A i \in 1..Len(txLast.m.selfBefore) :
                        FusionsOfSelf(txLast.m, txLast.m.selfBefore[i].id) = {}
                            => MapGet(txSelf.transactions, txLast.m.selfBefore[i].id)
                                   = txLast.m.selfBefore[i]
                 /\ \A i \in 1..Len(txLast.m.otherBefore) :
                        txLast.m.otherBefore[i].id \in CreatedIds(txLast.m)
                            => MapGet(txSelf.transactions, txLast.m.otherBefore[i].id)
                                   = txLast.m.otherBefore[i])
    /\ [][txLast'.op = "create" /\ txCalls' = txCalls + 1
             => /\ transactionsCounter' = transactionsCounter + 1
                /\ StoredTransactionIds(txSelf')
                       = StoredTransactionIds(txSelf) \cup {transactionsCounter'}
                /\ Len(txSelf'.transactions) = Len(txSelf.transactions) + 1]_vars

\* a merge has created a transaction of other in a store that held transactions
C26_Witness ==
    /\ txLast.op = "merge"
    /\ Len(txLast.m.selfBefore) >= 2
    /\ CreatedIds(txLast.m) # {}
    /\ \A id \in CreatedIds(txLast.m) : MapHas(txSelf.transactions, id)

(***************************************************************************)
(* The choice findBestTransaction made for the first transaction of this   *)
(* store in the merge of txLast: its candidates are all of other.          *)
(***************************************************************************)
FirstOfSelf(m) == m.selfBefore[1]

\* the transactions of other that pass the structural filter for it
CandidatesOf(m) == MatchesOf(FirstOfSelf(m), m.otherBefore, m.compare)

\* the distance of two dates in minutes
DateDistance(a, b) == Abs(a.date - b.date)

\* the transactions of other it was fused with in the first pass
FirstPassPartners(m) ==
    {m.fusions[i].b : i \in {j \in FusionsOfSelf(m, FirstOfSelf(m).id) : m.fusions[j].pass = 1}}

FewCandidates(m) == m.selfBefore = <<>> \/ Len(CandidatesOf(m)) < 2

\* C27: with two or more candidates, a candidate is eligible when its date is
\* at most 3 days from the transaction's; the transaction is fused with an
\* eligible candidate when there is one, and with none when there is not.
C27_WindowInclusive ==
    txLast.op = "merge" /\ ~FewCandidates(txLast.m) =>
        LET m == txLast.m
            eligible == {i \in 1..Len(CandidatesOf(m)) :
                            DateDistance(FirstOfSelf(m), CandidatesOf(m)[i]) <= 3 * MinutesPerDay}
        IN  IF eligible = {}
            THEN FirstPassPartners(m) = {}
            ELSE \E i \in eligible : FirstPassPartners(m) = {CandidatesOf(m)[i]}

\* the same with the candidates that are less than 3 days away
C27_WindowExclusive ==
    txLast.op = "merge" /\ ~FewCandidates(txLast.m) =>
        LET m == txLast.m
            eligible == {i \in 1..Len(CandidatesOf(m)) :
                            DateDistance(FirstOfSelf(m), CandidatesOf(m)[i]) < 3 * MinutesPerDay}
        IN  IF eligible = {}
            THEN FirstPassPartners(m) = {}
            ELSE \E i \in eligible : FirstPassPartners(m) = {CandidatesOf(m)[i]}


\* the description similarity of the first transaction of this store and other
DescriptionScore(m, other) == compareTwoStrings(FirstOfSelf(m).description, other.description)

\* C28: the candidate a transaction is fused with is no further from its date
\* than any candidate within 3 days, and no more similar in description than
\* any candidate at the same distance.
C28_ClosestThenLeastSimilar ==
    txLast.op = "merge" /\ ~FewCandidates(txLast.m) =>
        LET m == txLast.m
        IN  \A b \in FirstPassPartners(m) : \A i \in 1..Len(CandidatesOf(m)) :
                LET c == CandidatesOf(m)[i]
                IN  DateDistance(FirstOfSelf(m), c) <= 3 * MinutesPerDay =>
                        /\ DateDistance(FirstOfSelf(m), b) <= DateDistance(FirstOfSelf(m), c)
                        /\ DateDistance(FirstOfSelf(m), b) = DateDistance(FirstOfSelf(m), c)
                               => ~FractionLess(DescriptionScore(m, c), DescriptionScore(m, b))

\* a transaction was fused with the less similar of two candidates of its date,
\* or with the closer of two candidates with its description
C28_Witness ==
    /\ txLast.op = "merge" /\ ~FewCandidates(txLast.m)
    /\ \E b \in FirstPassPartners(txLast.m) : \E i \in 1..Len(CandidatesOf(txLast.m)) :
           LET c == CandidatesOf(txLast.m)[i]
               t == FirstOfSelf(txLast.m)
           IN  /\ DateDistance(t, b) = DateDistance(t, c)
               /\ FractionLess(DescriptionScore(txLast.m, b), DescriptionScore(txLast.m, c))

\* a transaction was fused with the closer of two candidates
C28_WitnessCloser ==
    /\ txLast.op = "merge" /\ ~FewCandidates(txLast.m)
    /\ \E b \in FirstPassPartners(txLast.m) : \E i \in 1..Len(CandidatesOf(txLast.m)) :
           DateDistance(FirstOfSelf(txLast.m), b)
               < DateDistance(FirstOfSelf(txLast.m), CandidatesOf(txLast.m)[i])


(***************************************************************************)
(* The date of a fused transaction.                                        *)
(***************************************************************************)
\* the hour and the minute of the date are zero
AtMidnight(date) == date % MinutesPerDay = 0

\* the date the transaction of this store has after the fusion f
FusedDate(f) == MapGet(txSelf.transactions, f.a.id).date

\* C29: after a merge, a transaction of this store that was fused with b of
\* other has b's date when that has an hour or a minute, and the date it had
\* otherwise; so when one of the two dates is at 00:00 and the other is not,
\* it has the one that is not, in the first pass and in the second.
C29_FusedDate ==
    txLast.op = "merge" =>
        \A i \in 1..Len(txLast.m.fusions) :
            LET f == txLast.m.fusions[i]
            IN  /\ FusedDate(f) = IF AtMidnight(f.b.date) THEN f.a.date ELSE f.b.date
                /\ AtMidnight(f.a.date) /\ ~AtMidnight(f.b.date) => FusedDate(f) = f.b.date
                /\ AtMidnight(f.b.date) /\ ~AtMidnight(f.a.date) => FusedDate(f) = f.a.date

\* a transaction at 00:00 was fused in the first pass with one that has a time
C29_Witness ==
    /\ txLast.op = "merge"
    /\ \E i \in 1..Len(txLast.m.fusions) :
           LET f == txLast.m.fusions[i]
           IN  /\ f.pass = 1
               /\ AtMidnight(f.a.date) /\ ~AtMidnight(f.b.date)
               /\ FusedDate(f) = f.b.date

\* the same in the second pass
C29_WitnessSecondPass ==
    /\ txLast.op = "merge"
    /\ \E i \in 1..Len(txLast.m.fusions) :
           LET f == txLast.m.fusions[i]
           IN  /\ f.pass = 2
               /\ AtMidnight(f.a.date) # AtMidnight(f.b.date)
               /\ ~AtMidnight(FusedDate(f))


(***************************************************************************)
(* The transfer between two accounts of the user: the debit of 09:00 on    *)
(* acc_1 (trans_2) and the credit of 09:01 on acc_2 (trans_3).             *)
(***************************************************************************)
TransferFed ==
    /\ stage.name = "feed" /\ stage.error = ""
    /\ {feed[i]._id : i \in 1..Len(feed)} = {"trans_2", "trans_3"}
    /\ IsSome(AccountsGetByAkahuId(Val(modifiedAccounts), "acc_1"))
    /\ IsSome(AccountsGetByAkahuId(Val(modifiedAccounts), "acc_2"))

\* the feed import made one transaction of the two rows, from the account of
\* the debit to the account of the credit, with that date
TransferAt(date) ==
    /\ Len(akahuTransactions.transactions) = 1
    /\ LET t == akahuTransactions.transactions[1].v
       IN  /\ t.akahuIds = {"trans_2", "trans_3"}
           /\ t.sourceId = Val(AccountsGetByAkahuId(Val(modifiedAccounts), "acc_1")).id
           /\ t.destinationId = Val(AccountsGetByAkahuId(Val(modifiedAccounts), "acc_2")).id
           /\ t.amount = 500
           /\ t.date = date

\* C30: the feed import of the debit and the credit of a transfer gives one
\* transaction with the ids of both rows, from the account of the debit to
\* the account of the credit, of the amount, dated as the credit row (09:01).
C30_TransferCreditDate == TransferFed => TransferAt(9 * 60 + 1)

\* the same, dated as the debit row (09:00)
C30_TransferDebitDate == TransferFed => TransferAt(9 * 60)


(***************************************************************************)
(* The counterparty of a feed row.                                         *)
(***************************************************************************)
\* the state of importTransactions when it reaches row k of the feed, the
\* accounts being those it was called with
FeedBefore(accounts, k) ==
    FeedRows([accounts |-> accounts, positive |-> EmptyTransactions,
              negative |-> EmptyTransactions, normalTransactions |-> <<>>,
              counter |-> transactionsCounter, error |-> ""],
             SubSeq(feed, 1, k - 1))

\* the four ways to the counterparty of a row, each on its own
ByInterest(s, row) ==
    IF includes(toLowerCase(row.description), <<"i", "n", "t", "e", "r", "e", "s", "t">>)
    THEN AccountsGetByName(s, "Interest") ELSE None
ByMerchant(s, row) ==
    IF IsSome(row.merchant) THEN AccountsGetByAkahuId(s, Val(row.merchant)._id) ELSE None
ByBankNumber(s, row) ==
    IF IsSome(row.meta) /\ IsSome(Val(row.meta).other_account)
    THEN AccountsGetByBankNumber(s, Val(Val(row.meta).other_account)) ELSE None
ByFuzzyName(s, row) ==
    LET whole    == getByNameFuzzy(s, row.description)
        stripped == getByNameFuzzy(s, replace(row.description, Val(Val(row.meta).reference)))
    IN  IF IsSome(row.meta) /\ IsSome(Val(row.meta).reference)
           /\ FractionLess(whole.rating, stripped.rating)
        THEN stripped.account ELSE whole.account

\* the account of the first way that finds one
FirstHit(s, row) ==
    IF IsSome(ByInterest(s, row)) THEN ByInterest(s, row)
    ELSE IF IsSome(ByMerchant(s, row)) THEN ByMerchant(s, row)
    ELSE IF IsSome(ByBankNumber(s, row)) THEN ByBankNumber(s, row)
    ELSE ByFuzzyName(s, row)

\* the account of the other side of a transaction of the feed import
Counterparty(row, transaction) ==
    IF row.amount < 0 THEN transaction.destinationId ELSE transaction.sourceId

\* C31: the counterparty of every row the feed import transforms is the account
\* named Interest when the description contains 'interest', else the account
\* with the Akahu ID of the merchant, else the account with the bank number of
\* the other party, else the best fuzzy match of the description: the first of
\* the four that finds an account; and the transaction the import returns for
\* the row has that account on the other side.
C31_FirstHitWins ==
    [][pc = "imported" /\ stage'.name = "feed" =>
          \A k \in 1..Len(feed) :
              LET before == FeedBefore(Val(modifiedAccounts), k)
                  t      == feedTransformTransaction(before.accounts, feed[k])
              IN  before.error = "" /\ t.error = "" =>
                      /\ IsSome(FirstHit(before.accounts, feed[k]))
                      /\ Counterparty(feed[k], t.transaction)
                             = Val(FirstHit(before.accounts, feed[k])).id
                      /\ stage'.error = "" =>
                             \E i \in 1..Len(akahuTransactions'.transactions) :
                                 LET stored == akahuTransactions'.transactions[i].v
                                 IN  /\ feed[k]._id \in stored.akahuIds
                                     /\ Val(FirstHit(before.accounts, feed[k])).id
                                            \in {stored.sourceId, stored.destinationId}]_vars

\* two ways find two accounts
Overridable(s, row, hit, later) ==
    /\ IsSome(hit) /\ IsSome(later) /\ Val(hit).id # Val(later).id

\* the feed import has transformed a row for which an earlier way and a later
\* way find two accounts, and its transaction has the account of the earlier
C31_Witness ==
    /\ stage.name = "feed" /\ stage.error = ""
    /\ \E k \in 1..Len(feed) :
           LET s == FeedBefore(actualAccounts, k).accounts
               row == feed[k]
           IN  /\ \/ Overridable(s, row, ByInterest(s, row), ByMerchant(s, row))
                  \/ Overridable(s, row, ByInterest(s, row), ByBankNumber(s, row))
                  \/ Overridable(s, row, ByMerchant(s, row), ByBankNumber(s, row))
                  \/ Overridable(s, row, ByInterest(s, row), getByNameFuzzy(s, row.description).account)
                  \/ Overridable(s, row, ByMerchant(s, row), getByNameFuzzy(s, row.description).account)
                  \/ Overridable(s, row, ByBankNumber(s, row), getByNameFuzzy(s, row.description).account)
               /\ \E i \in 1..Len(akahuTransactions.transactions) :
                      LET stored == akahuTransactions.transactions[i].v
                      IN  /\ row._id \in stored.akahuIds
                          /\ Val(FirstHit(s, row)).id \in {stored.sourceId, stored.destinationId}


(***************************************************************************)
(* The merge of an expense or revenue row into the account it matches.     *)
(***************************************************************************)
\* one unset, or equal
CompatibleAkahuIds(a, b) == ~IsSome(a.akahuId) \/ ~IsSome(b.akahuId) \/ a.akahuId = b.akahuId

\* no role is carried by both
ComplementaryRoles(a, b) ==
    /\ ~(IsSome(a.source) /\ IsSome(b.source))
    /\ ~(IsSome(a.destination) /\ IsSome(b.destination))

\* row k was merged into the account it matched: the account of that id has
\* both roles, and the bank numbers and alternate names of both
MergedRow(k, after) ==
    LET match  == RowMatches(k)[1]
        merged == AccountsGet(after.accounts, match.id)
    IN  /\ after.error = ""
        /\ Len(after.accounts.accounts) = Len(BeforeRow(k).accounts.accounts)
        /\ IsSome(merged)
        /\ IsSome(Val(merged).source) /\ IsSome(Val(merged).destination)
        /\ Val(merged).bankNumbers = match.bankNumbers \cup Candidate(k).bankNumbers
        /\ Val(merged).alternateNames
               = SetAll(match.alternateNames, Candidate(k).alternateNames)

\* row k is an expense or revenue row with one match, of the same name when
\* both are put through same, with compatible Akahu IDs and complementary roles
Mergeable(k, same(_)) ==
    /\ RowReached(k)
    /\ Val(TypeMapping(ledger.accounts[k].type)) \in {"expense", "revenue"}
    /\ Len(RowMatches(k)) = 1
    /\ same(RowMatches(k)[1].name) = same(Candidate(k).name)
    /\ CompatibleAkahuIds(RowMatches(k)[1], Candidate(k))
    /\ ComplementaryRoles(RowMatches(k)[1], Candidate(k))

SameSpelling(name) == name

\* C32: an expense or revenue row with a single match of the same normalized
\* name, compatible Akahu IDs and complementary roles is merged into the match:
\* the import goes on, the account keeps its id, has both roles and has the
\* bank numbers and the alternate names of both.
C32_MergeSucceeds ==
    stage.name = "import" =>
        \A k \in 1..Len(ledger.accounts) :
            Mergeable(k, normalizeName)
                => MergedRow(k, importAccounts(BeforeRow(k), <<ledger.accounts[k]>>))

\* the same for a match whose name is spelt as the name of the row
C32_MergeSucceedsSameSpelling ==
    stage.name = "import" =>
        \A k \in 1..Len(ledger.accounts) :
            Mergeable(k, SameSpelling)
                => MergedRow(k, importAccounts(BeforeRow(k), <<ledger.accounts[k]>>))


(***************************************************************************)
(* The roles of the accounts of a store.                                   *)
(***************************************************************************)
\* an account has a role, and two roles of one account have one Firefly ID
RolesOfOneAccount(account) ==
    /\ IsSome(account.source) \/ IsSome(account.destination)
    /\ IsSome(account.source) /\ IsSome(account.destination)
           => Val(account.source).fireflyId = Val(account.destination).fireflyId

RolesWellFormed(s) == \A i \in 1..Len(s.accounts) : RolesOfOneAccount(s.accounts[i].v)

\* every account has a role
RolesPresent(s) ==
    \A i \in 1..Len(s.accounts) :
        IsSome(s.accounts[i].v.source) \/ IsSome(s.accounts[i].v.destination)

\* C33: after the ledger import, the feed import and the first loop of export
\* every account of the stores of the ledger has a source or a destination
\* role, and an account with both has the same Firefly ID on both.
C33_RolesWellFormed ==
    /\ pc \in {"imported", "fed", "merged", "exported"} => RolesWellFormed(actualAccounts)
    /\ pc \in {"imported", "fed", "merged", "exported"} \/ stage.name \in {"feed", "export"}
           => RolesWellFormed(Val(modifiedAccounts))

\* the same for the first half: every account has a role
C33_RolesPresent ==
    /\ pc \in {"imported", "fed", "merged", "exported"} => RolesPresent(actualAccounts)
    /\ pc \in {"imported", "fed", "merged", "exported"} \/ stage.name \in {"feed", "export"}
           => RolesPresent(Val(modifiedAccounts))


(***************************************************************************)
(* The amounts of the transactions of the stores of the pipeline.          *)
(***************************************************************************)
\* the stores that hold transactions in this state
TransactionStores ==
    (IF pc \in {"imported", "fed", "merged", "exported"} \/ stage.name \in {"feed", "merge", "export"}
     THEN {actualTransactions, Val(modifiedTransactions)} ELSE {})
    \cup (IF stage.name \in {"feed", "merge", "export"} THEN {akahuTransactions} ELSE {})

\* the amount of a transaction is the absolute value of the amount of the
\* ledger row it was imported from, or else of every feed row it was made of
AmountOfRows(t) ==
    /\ t.amount >= 0
    /\ \A i \in 1..Len(ledger.transactions) :
           t.fireflyId = Some(ledger.transactions[i].id)
               => t.amount = Abs(ledger.transactions[i].amount)
    /\ ~IsSome(t.fireflyId) =>
           \A i \in 1..Len(feed) :
               feed[i]._id \in t.akahuIds => t.amount = Abs(feed[i].amount)

\* C34: every transaction of every store has an amount that is not negative:
\* the absolute value of the amount of its ledger row, or of its feed rows, and
\* no merge changes it.
C34_AmountsNotNegative ==
    \A s \in TransactionStores :
        \A i \in 1..Len(s.transactions) : AmountOfRows(s.transactions[i].v)

\* the working store holds, after the merge of main, a transaction made of a
\* debit of the feed
C34_Witness ==
    /\ stage.name = "merge" /\ stage.error = ""
    /\ \E i \in 1..Len(Val(modifiedTransactions).transactions) :
           LET t == Val(modifiedTransactions).transactions[i].v
           IN  /\ ~IsSome(t.fireflyId)
               /\ \E k \in 1..Len(feed) :
                      feed[k]._id \in t.akahuIds /\ feed[k].amount < 0
                          /\ t.amount = -feed[k].amount


(***************************************************************************)
(* The order of the requests of an export.                                 *)
(***************************************************************************)
AccountOps == {"updateAccount", "storeAccount"}

\* the request writes that role of the account
WritesRole(request, account, role) ==
    /\ IsSome(role)
    /\ request.body.name = account.name
    /\ IF IsSome(Val(role).fireflyId)
       THEN request.op = "updateAccount"
            /\ request.id = Some(IdString(Val(Val(role).fireflyId)))
       ELSE request.op = "storeAccount" /\ request.type = Some(Val(role).type)

\* the places in the store of the accounts a request may write
AccountPlaces(request, s) ==
    {i \in 1..Len(s.accounts) :
        \/ WritesRole(request, s.accounts[i].v, s.accounts[i].v.source)
        \/ WritesRole(request, s.accounts[i].v, s.accounts[i].v.destination)}

\* the places in the store of the transactions a request may write
TransactionPlaces(request, s) ==
    {i \in 1..Len(s.transactions) :
        /\ request.body.external_id = SortStrings(s.transactions[i].v.akahuIds)
        /\ request.body.description = s.transactions[i].v.description
        /\ IF IsSome(s.transactions[i].v.fireflyId)
           THEN request.op = "updateTransaction"
                /\ request.id = Some(IdString(Val(s.transactions[i].v.fireflyId)))
           ELSE request.op = "storeTransaction"}

Places(request) ==
    IF request.op \in AccountOps THEN AccountPlaces(request, Val(modifiedAccounts))
    ELSE TransactionPlaces(request, Val(modifiedTransactions))

\* the requests are in the order of the stores: the accounts first
InStoreOrder(sent) ==
    /\ \A i \in 1..Len(sent) : Places(sent[i]) # {}
    /\ \A i, j \in 1..Len(sent) :
           i < j =>
               /\ sent[j].op \in AccountOps => sent[i].op \in AccountOps
               /\ (sent[i].op \in AccountOps) = (sent[j].op \in AccountOps)
                      => \E p \in Places(sent[i]) : \E q \in Places(sent[j]) :
                             IF sent[i].op \in AccountOps THEN p <= q ELSE p < q

\* C35: the requests of an export are the writes of the accounts, in the order
\* of the working store of the accounts, followed by the writes of the
\* transactions, in the order of the working store of the transactions.
C35_RequestsInStoreOrder ==
    stage.name = "export" => InStoreOrder(stage.logged) /\ InStoreOrder(requests)

\* an export has written two accounts and then two transactions
C35_Witness ==
    /\ stage.name = "export" /\ ~stage.dryRun
    /\ \E i, j, k, l \in 1..Len(requests) :
           /\ i < j /\ j < k /\ k < l
           /\ requests[i].op \in AccountOps /\ requests[j].op \in AccountOps
           /\ Places(requests[i]) \cap Places(requests[j]) = {}
           /\ requests[k].op \notin AccountOps /\ requests[l].op \notin AccountOps


(***************************************************************************)
(* getByNameFuzzy on the store under test.                                 *)
(***************************************************************************)
\* descriptions of the feed, as queries
FuzzyQueries ==
    { <<"C", "o", "f", "f", "e", "e">>, <<"c", "h", "e", "q", "u", "e">>,
      <<"I", "n", "t", "e", "r", "e", "s", "t">>, <<>> }

\* the similarity of the query and the name at that place of the name index
ScoreAt(s, source, i) == compareTwoStrings(trim(toLowerCase(source)), Chars(s.nameIndex[i].k))

\* the place of the earliest name of the highest similarity
BestPlace(s, source) ==
    CHOOSE i \in 1..Len(s.nameIndex) :
        /\ \A j \in 1..Len(s.nameIndex) :
               ~FractionLess(ScoreAt(s, source, i), ScoreAt(s, source, j))
        /\ \A j \in 1..(i - 1) : FractionLess(ScoreAt(s, source, j), ScoreAt(s, source, i))

\* getByNameFuzzy returns the account of that place, and its similarity
ReturnsBest(s, source) ==
    LET result == getByNameFuzzy(s, source)
    IN  /\ result.error = ""
        /\ result.account = AccountsGet(s, s.nameIndex[BestPlace(s, source)].v)
        /\ ~FractionLess(result.rating, ScoreAt(s, source, BestPlace(s, source)))
        /\ ~FractionLess(ScoreAt(s, source, BestPlace(s, source)), result.rating)

\* C36: on a store with names getByNameFuzzy returns, for every query, the
\* account of the earliest name of the highest similarity and that
\* similarity; on a store without names it fails with NoAccounts.
C36_FuzzyReturnsBest ==
    \A source \in FuzzyQueries :
        IF accStore.nameIndex = <<>>
        THEN getByNameFuzzy(accStore, source).error = "NoAccounts"
        ELSE ReturnsBest(accStore, source)

\* the same when a name of the store has a similarity above 0; when none has,
\* getByNameFuzzy fails
C36_FuzzyReturnsBestAboveZero ==
    \A source \in FuzzyQueries :
        IF \E i \in 1..Len(accStore.nameIndex) :
               FractionLess([num |-> 0, den |-> 1], ScoreAt(accStore, source, i))
        THEN ReturnsBest(accStore, source)
        ELSE getByNameFuzzy(accStore, source).error = "NoAccounts"


(***************************************************************************)
(* The description of a transaction of the feed import.                    *)
(***************************************************************************)
\* the reference of a row, when it has one (the rows of the model have no
\* code and no particulars)
ReferenceOf(row) ==
    IF IsSome(row.meta) /\ IsSome(Val(row.meta).reference)
    THEN Val(Val(row.meta).reference) ELSE <<>>

\* the description has no occurrence of the reference of the row and no white
\* space at either end, and is empty if the row's was the reference alone
Cleaned(row, description) ==
    /\ ReferenceOf(row) # <<>> => ~includes(description, ReferenceOf(row))
    /\ description # <<>> => Head(description) # " " /\ description[Len(description)] # " "
    /\ ReferenceOf(row) # <<>> /\ trim(row.description) = ReferenceOf(row)
           => description = <<>>

\* the descriptions the feed import gave the transaction of a row: its own, or
\* one side of the description of a transfer
DescriptionOf(row, ends) ==
    /\ row._id \in ends.akahuIds
    /\ \/ Cleaned(row, ends.description)
       \/ \E i \in 1..(Len(ends.description) - 2) :
              \/ Cleaned(row, SubSeq(ends.description, 1, i - 1))
                    /\ SubSeq(ends.description, i, i + 2) = <<" ", "-", " ">>
              \/ Cleaned(row, SubSeq(ends.description, i + 3, Len(ends.description)))
                    /\ SubSeq(ends.description, i, i + 2) = <<" ", "-", " ">>

\* C37: the description of the transaction the feed import makes of a row has
\* no occurrence of the reference of the row, has no white space at its ends,
\* and is empty when the description of the row was the reference alone.
C37_DescriptionCleaned ==
    stage.name = "feed" /\ stage.error = "" =>
        \A k \in 1..Len(feed) :
            \E i \in 1..Len(akahuTransactions.transactions) :
                DescriptionOf(feed[k], akahuTransactions.transactions[i].v)

\* the same for the rows that have meta
C37_DescriptionCleanedWithMeta ==
    stage.name = "feed" /\ stage.error = "" =>
        \A k \in 1..Len(feed) :
            IsSome(feed[k].meta) =>
                \E i \in 1..Len(akahuTransactions.transactions) :
                    DescriptionOf(feed[k], akahuTransactions.transactions[i].v)


(***************************************************************************)
(* The roles the first loop of export adds.  The ledger import gives every *)
(* role a Firefly ID and the feed import adds no role, so the roles        *)
(* without one are those the first loop of export has added.               *)
(***************************************************************************)
AddedRoles ==
    UNION {{[name |-> account.name, type |-> Val(role).type] :
               role \in {r \in {account.source, account.destination} :
                            IsSome(r) /\ ~IsSome(Val(r).fireflyId)}} :
           account \in {Val(modifiedAccounts).accounts[i].v :
                           i \in 1..Len(Val(modifiedAccounts).accounts)}}

\* the requests of the export that create an account of that name and type
CreatesOf(added) ==
    {i \in 1..Len(stage.logged) :
        /\ stage.logged[i].op = "storeAccount"
        /\ stage.logged[i].type = Some(added.type)
        /\ stage.logged[i].body.name = added.name}

PrepassDone == stage.name = "export" /\ stage.error # "InvalidAccountId"

\* C38: for every role the first loop of export has added to an account, the
\* export makes exactly one request that creates an account of the type of
\* the role.
C38_AddedRoleCreatedOnce ==
    PrepassDone => \A added \in AddedRoles : Cardinality(CreatesOf(added)) = 1

\* it never makes two
C38_AddedRoleCreatedAtMostOnce ==
    PrepassDone => \A added \in AddedRoles : Cardinality(CreatesOf(added)) <= 1


(***************************************************************************)
(* The merge of main: the ledger store merges the store of the feed import *)
(* with the callbacks of index.ts.                                         *)
(***************************************************************************)
MergeOfMain == txLast.op = "merge" /\ txLast.m.compare = "akahuIdsMatch"

\* both carry Akahu IDs, and not the same
DifferentAkahuIds(a, b) == a.akahuIds # {} /\ b.akahuIds # {} /\ a.akahuIds # b.akahuIds

\* C39: the merge of main fuses no transaction of the ledger with a
\* transaction of the feed when both carry Akahu IDs and the two sets differ.
C39_NoFusionAcrossAkahuIds ==
    MergeOfMain =>
        \A i \in 1..Len(txLast.m.fusions) :
            ~DifferentAkahuIds(txLast.m.fusions[i].a, txLast.m.fusions[i].b)

\* the merge of main met two transactions of the same accounts and amount with
\* different Akahu IDs, and left both in the store
C39_Witness ==
    /\ MergeOfMain
    /\ \E i \in 1..Len(txLast.m.selfBefore) : \E j \in 1..Len(txLast.m.otherBefore) :
           LET a == txLast.m.selfBefore[i]
               b == txLast.m.otherBefore[j]
           IN  /\ DifferentAkahuIds(a, b)
               /\ a.sourceId = b.sourceId /\ a.destinationId = b.destinationId
               /\ a.amount = b.amount
               /\ MapHas(txSelf.transactions, a.id) /\ MapHas(txSelf.transactions, b.id)
               /\ MapGet(txSelf.transactions, a.id).akahuIds = a.akahuIds
               /\ MapGet(txSelf.transactions, b.id).akahuIds = b.akahuIds


\* C40: a transaction with exactly one candidate is fused with it, however far
\* apart their dates are.
C40_SingleCandidateFused ==
    txLast.op = "merge" /\ txLast.m.selfBefore # <<>> =>
        (Len(CandidatesOf(txLast.m)) = 1
            => FirstPassPartners(txLast.m) = {CandidatesOf(txLast.m)[1]})

\* a transaction was fused with its only candidate, dated 3 days later
C40_Witness ==
    /\ txLast.op = "merge" /\ txLast.m.selfBefore # <<>>
    /\ Len(CandidatesOf(txLast.m)) = 1
    /\ DateDistance(FirstOfSelf(txLast.m), CandidatesOf(txLast.m)[1]) >= 3 * MinutesPerDay
    /\ FirstPassPartners(txLast.m) = {CandidatesOf(txLast.m)[1]}
    /\ Len(txLast.m.fusions) = 1 /\ txLast.m.fusions[1].pass = 1

=============================================================================
